---------------------------- MODULE Spec2Model ----------------------------
(***************************************************************************)
(* A model of proxy-mirror, a host-based reverse proxy (src/src/proxy.js,  *)
(* router.js, rewriter.js and the cookie handler).                         *)
(*                                                                         *)
(* JavaScript strings are modelled as sequences of one-character strings,  *)
(* so that startsWith, slice, indexOf, split/join and toLowerCase are      *)
(* computed character by character, as the code computes them.            *)
(***************************************************************************)
EXTENDS Integers, Sequences, FiniteSets, TLC

VARIABLES
    rqConfig,     \* getUpstream: the siteConfig argument
    rqPath,       \* getUpstream: the requestPath argument
    rqResult,     \* getUpstream: the returned upstream
    rqPc          \* "call" before getUpstream has run, "returned" after

rqVars == <<rqConfig, rqPath, rqResult, rqPc>>

VARIABLES
    ckConfig,     \* buildCookieHandler: the siteConfig argument
    ckRaw,        \* rewriteSetCookies: one raw Set-Cookie value
    ckOut,        \* rewriteSetCookies: what the call produced for it
    ckPc          \* "call" before rewriteSetCookies has run, "returned" after

ckVars == <<ckConfig, ckRaw, ckOut, ckPc>>

VARIABLES
    bwConfig,     \* buildRewriter: the siteConfig argument
    bwBody,       \* rewrite: the body argument, a sequence of bytes
    bwType,       \* rewrite: the contentType argument
    bwOut,        \* rewrite: the returned body
    bwPc          \* "call" before rewrite has run, "returned" after

bwVars == <<bwConfig, bwBody, bwType, bwOut, bwPc>>

VARIABLES
    configs,      \* proxy.js: the site configurations loadAllConfigs returned
    routeMap,     \* Router.routeMap: <<localSubdomain, siteConfig>> in insertion order
    exchanges,    \* one record per request/response exchange (req, res, proxyReq)
    crashed       \* an exception escaped a handler: the process has exited

pxVars == <<configs, routeMap, exchanges, crashed>>

VARIABLES
    certMap,       \* proxy.js: localSubdomain -> {key, cert}, <<domain, pair>> in insertion order
    sniServername, \* SNICallback: the servername argument
    sniContext,    \* SNICallback: what was handed to cb (error, key and cert of the context)
    sniPc          \* "listening" before an SNICallback has run, "returned" after

sniVars == <<certMap, sniServername, sniContext, sniPc>>

vars == <<rqVars, ckVars, bwVars, pxVars, sniVars>>

(***************************************************************************)
(* Bounds of the model.                                                    *)
(***************************************************************************)
MaxRewrites == 2
MaxPathSegs == 3
MaxCookieAttrs == 3
MaxBodySegs == 3
MaxExchanges == 2
MaxChunks == 2

(***************************************************************************)
(* String primitives (String.prototype).                                   *)
(***************************************************************************)
Min(a, b) == IF a < b THEN a ELSE b

\* s.slice(n), 0 <= n
SliceFrom(s, n) == SubSeq(s, Min(n, Len(s)) + 1, Len(s))

\* s.slice(0, n)
SliceTo(s, n) == SubSeq(s, 1, Min(n, Len(s)))

\* s.startsWith(p)
StartsWith(s, p) == Len(p) <= Len(s) /\ SubSeq(s, 1, Len(p)) = p

\* s.endsWith(p)
EndsWith(s, p) == Len(p) <= Len(s) /\ SubSeq(s, Len(s) - Len(p) + 1, Len(s)) = p

\* whether p occurs in s at 1-based position i
OccursAt(s, p, i) == i >= 1 /\ i + Len(p) - 1 <= Len(s) /\ SubSeq(s, i, i + Len(p) - 1) = p

\* s.includes(p)
Includes(s, p) == \E i \in 1..(Len(s) + 1) : OccursAt(s, p, i)

\* s.indexOf(p), 0-based, -1 when absent
IndexOf(s, p) ==
    LET hits == {i \in 1..(Len(s) + 1) : OccursAt(s, p, i)}
    IN  IF hits = {} THEN -1 ELSE (CHOOSE i \in hits : \A j \in hits : i <= j) - 1

\* String.prototype.toLowerCase, character by character
LowerChar(c) ==
    CASE c = "A" -> "a" [] c = "B" -> "b" [] c = "C" -> "c" [] c = "D" -> "d" [] c = "E" -> "e"
      [] c = "F" -> "f" [] c = "G" -> "g" [] c = "H" -> "h" [] c = "I" -> "i" [] c = "J" -> "j"
      [] c = "K" -> "k" [] c = "L" -> "l" [] c = "M" -> "m" [] c = "N" -> "n" [] c = "O" -> "o"
      [] c = "P" -> "p" [] c = "Q" -> "q" [] c = "R" -> "r" [] c = "S" -> "s" [] c = "T" -> "t"
      [] c = "U" -> "u" [] c = "V" -> "v" [] c = "W" -> "w" [] c = "X" -> "x" [] c = "Y" -> "y"
      [] c = "Z" -> "z"
      [] OTHER -> c

ToLowerCase(s) == [i \in DOMAIN s |-> LowerChar(s[i])]

\* String.prototype.trim
RECURSIVE TrimStart(_)
TrimStart(s) == IF s # <<>> /\ Head(s) = " " THEN TrimStart(Tail(s)) ELSE s

RECURSIVE TrimEnd(_)
TrimEnd(s) ==
    IF s # <<>> /\ s[Len(s)] = " " THEN TrimEnd(SubSeq(s, 1, Len(s) - 1)) ELSE s

Trim(s) == TrimEnd(TrimStart(s))

\* s.split(c) for a one-character separator c: the sequence of the pieces
RECURSIVE SplitChar(_, _)
SplitChar(s, c) ==
    LET idx == IndexOf(s, <<c>>)
    IN  IF idx = -1 THEN <<s>>
        ELSE <<SliceTo(s, idx)>> \o SplitChar(SliceFrom(s, idx + 1), c)

\* pieces.join(sep)
RECURSIVE Join(_, _)
Join(pieces, sep) ==
    IF pieces = <<>> THEN <<>>
    ELSE IF Len(pieces) = 1 THEN pieces[1]
    ELSE pieces[1] \o sep \o Join(Tail(pieces), sep)

\* the concatenation of a sequence of strings
RECURSIVE Flatten(_)
Flatten(ss) == IF ss = <<>> THEN <<>> ELSE Head(ss) \o Flatten(Tail(ss))

\* all sequences over S of length at most n
RECURSIVE SeqsUpTo(_, _)
SeqsUpTo(S, n) ==
    IF n = 0 THEN {<<>>}
    ELSE LET shorter == SeqsUpTo(S, n - 1)
         IN  shorter \cup {Append(s, x) : s \in shorter, x \in S}

\* the sequences of SeqsUpTo(S, n) without a repeated element
DistinctSeqsUpTo(S, n) ==
    {s \in SeqsUpTo(S, n) : \A i, j \in DOMAIN s : i # j => s[i] # s[j]}

\* the protocol names 'https' and 'http'
HTTPS == <<"h", "t", "t", "p", "s">>
HTTP  == <<"h", "t", "t", "p">>

(***************************************************************************)
(* Router.getUpstream (src/src/router.js).                                 *)
(***************************************************************************)
\* [...rewrites].sort((a, b) => b.localPathPrefix.length - a.localPathPrefix.length):
\* Array.prototype.sort is stable, so equal lengths keep declaration order.
InsertByPrefixLenAsc(sorted, rw) ==
    LET k == Cardinality({i \in DOMAIN sorted :
                 Len(sorted[i].localPathPrefix) <= Len(rw.localPathPrefix)})
    IN  SubSeq(sorted, 1, k) \o <<rw>> \o SubSeq(sorted, k + 1, Len(sorted))

InsertByPrefixLen(sorted, rw) ==
    LET k == Cardinality({i \in DOMAIN sorted :
                 Len(sorted[i].localPathPrefix) >= Len(rw.localPathPrefix)})
    IN  SubSeq(sorted, 1, k) \o <<rw>> \o SubSeq(sorted, k + 1, Len(sorted))

RECURSIVE SortRewrites(_)
SortRewrites(rws) ==
    IF rws = <<>> THEN <<>>
    ELSE InsertByPrefixLen(SortRewrites(SubSeq(rws, 1, Len(rws) - 1)), rws[Len(rws)])

\* requestPath.startsWith(prefix + '/') || requestPath === prefix
ExplicitMatches(requestPath, prefix) ==
    StartsWith(requestPath, prefix \o <<"/">>) \/ requestPath = prefix

\* mutant of StripPrefix: the local path prefix is left on the path
StripPrefixKeepsPath(requestPath, prefix) == requestPath

\* requestPath.slice(prefix.length) || '/'
StripPrefix(requestPath, prefix) ==
    LET rest == SliceFrom(requestPath, Len(prefix))
    IN  IF rest = <<>> THEN <<"/">> ELSE rest

\* requestPath.startsWith(wc.localPathPrefix + '--')
WildcardMatches(requestPath, wc) ==
    StartsWith(requestPath, wc.localPathPrefix \o <<"-", "-">>)

\* mutant of WildcardUpstream: the remaining path loses its leading '/'
WildcardUpstreamDropsSlash(siteConfig, requestPath, wc) ==
    LET prefix      == wc.localPathPrefix \o <<"-", "-">>
        afterPrefix == SliceFrom(requestPath, Len(prefix))
        slashIdx    == IndexOf(afterPrefix, <<"/">>)
        encodedSub  == IF slashIdx = -1 THEN afterPrefix ELSE SliceTo(afterPrefix, slashIdx)
        remaining   == IF slashIdx = -1 THEN <<"/">> ELSE SliceFrom(afterPrefix, slashIdx + 1)
    IN  [host     |-> encodedSub \o <<".">> \o wc.rootDomain,
         path     |-> remaining,
         protocol |-> siteConfig.targetProtocol,
         port     |-> siteConfig.targetPort]

\* mutant of WildcardUpstream: the whole text after the prefix becomes the label
WildcardUpstreamWholeRest(siteConfig, requestPath, wc) ==
    LET prefix      == wc.localPathPrefix \o <<"-", "-">>
        afterPrefix == SliceFrom(requestPath, Len(prefix))
    IN  [host     |-> afterPrefix \o <<".">> \o wc.rootDomain,
         path     |-> <<"/">>,
         protocol |-> siteConfig.targetProtocol,
         port     |-> siteConfig.targetPort]

\* the body of the wildcard branch: split the text after the prefix at its first '/'
WildcardUpstream(siteConfig, requestPath, wc) ==
    LET prefix      == wc.localPathPrefix \o <<"-", "-">>
        afterPrefix == SliceFrom(requestPath, Len(prefix))
        slashIdx    == IndexOf(afterPrefix, <<"/">>)
        encodedSub  == IF slashIdx = -1 THEN afterPrefix ELSE SliceTo(afterPrefix, slashIdx)
        remaining   == IF slashIdx = -1 THEN <<"/">> ELSE SliceFrom(afterPrefix, slashIdx)
    IN  [host     |-> encodedSub \o <<".">> \o wc.rootDomain,
         path     |-> remaining,
         protocol |-> siteConfig.targetProtocol,
         port     |-> siteConfig.targetPort]

getUpstream(siteConfig, requestPath) ==
    LET sorted == SortRewrites(siteConfig.rewrites)
        hitsE  == {i \in DOMAIN sorted :
                      ExplicitMatches(requestPath, sorted[i].localPathPrefix)}
        hitsW  == {i \in DOMAIN siteConfig.wildcardRewrites :
                      WildcardMatches(requestPath, siteConfig.wildcardRewrites[i])}
    IN  IF hitsE # {}
        THEN LET rw == sorted[CHOOSE i \in hitsE : \A j \in hitsE : i <= j]
             IN  [host     |-> rw.externalHost,
                  path     |-> StripPrefix(requestPath, rw.localPathPrefix),
                  protocol |-> siteConfig.targetProtocol,
                  port     |-> siteConfig.targetPort]
        ELSE IF hitsW # {}
        THEN WildcardUpstream(siteConfig, requestPath,
                 siteConfig.wildcardRewrites[CHOOSE i \in hitsW : \A j \in hitsW : i <= j])
        ELSE [host     |-> siteConfig.targetHost,
              path     |-> requestPath,
              protocol |-> siteConfig.targetProtocol,
              port     |-> siteConfig.targetPort]

(***************************************************************************)
(* The cookie handler (src/unnamed/part_003: parseCookie, serializeCookie, *)
(* buildCookieHandler).  An attribute map is a sequence of <<key, value>>  *)
(* pairs in insertion order, as a JavaScript Map iterates; the value of a  *)
(* valueless flag is the boolean true, written FlagTrue.                   *)
(***************************************************************************)
FlagTrue == [isFlag |-> TRUE, text |-> <<>>]
TextValue(v) == [isFlag |-> FALSE, text |-> v]

\* F applied to the value of x: a const binding, x is computed once
Bind(x, F(_)) == CHOOSE r \in {F(v) : v \in {x}} : TRUE

MapHas(attributes, key) == \E i \in DOMAIN attributes : attributes[i][1] = key

MapGet(attributes, key) ==
    attributes[CHOOSE i \in DOMAIN attributes : attributes[i][1] = key][2]

\* Map.prototype.set: an existing key keeps its place and takes the new value
MapSet(attributes, key, val) ==
    IF MapHas(attributes, key)
    THEN [i \in DOMAIN attributes |->
             IF attributes[i][1] = key THEN <<key, val>> ELSE attributes[i]]
    ELSE Append(attributes, <<key, val>>)

\* one iteration of parseCookie's loop over parts[1..]
ParseAttribute(attributes, part) ==
    LET eqIdx == IndexOf(part, <<"=">>)
    IN  IF eqIdx = -1
        THEN MapSet(attributes, ToLowerCase(part), FlagTrue)
        ELSE MapSet(attributes,
                    ToLowerCase(Trim(SliceTo(part, eqIdx))),
                    TextValue(Trim(SliceFrom(part, eqIdx + 1))))

RECURSIVE ParseAttributes(_, _)
ParseAttributes(attributes, parts) ==
    IF parts = <<>> THEN attributes
    ELSE ParseAttributes(ParseAttribute(attributes, Head(parts)), Tail(parts))

parseCookie(raw) ==
    LET pieces == SplitChar(raw, ";")
        parts  == [i \in DOMAIN pieces |-> Trim(pieces[i])]
    IN  [nameValue |-> parts[1], attributes |-> ParseAttributes(<<>>, Tail(parts))]

\* one iteration of serializeCookie's loop
SerializeAttribute(key, val) ==
    IF val.isFlag THEN <<";", " ">> \o key
    ELSE <<";", " ">> \o key \o <<"=">> \o val.text

RECURSIVE SerializeAttributes(_)
SerializeAttributes(attributes) ==
    IF attributes = <<>> THEN <<>>
    ELSE SerializeAttribute(Head(attributes)[1], Head(attributes)[2])
            \o SerializeAttributes(Tail(attributes))

serializeCookie(parsed) == parsed.nameValue \o SerializeAttributes(parsed.attributes)

\* parts.length >= 2 ? parts.slice(-2).join('.') : d, for parts = d.split('.')
LastTwoLabels(d) ==
    LET parts == SplitChar(d, ".")
    IN  IF Len(parts) >= 2
        THEN Join(SubSeq(parts, Len(parts) - 1, Len(parts)), <<".">>)
        ELSE d

\* rootDomains of buildCookieHandler; only membership is ever asked of it
rootDomains(siteConfig) ==
    {LastTwoLabels(siteConfig.targetHost)}
        \cup {LastTwoLabels(siteConfig.rewrites[i].externalHost) :
                 i \in DOMAIN siteConfig.rewrites}
        \cup {LastTwoLabels(siteConfig.wildcardRewrites[i].rootDomain) :
                 i \in DOMAIN siteConfig.wildcardRewrites}

\* value.replace(/^\./, '')
StripLeadingDot(v) == IF v # <<>> /\ Head(v) = "." THEN Tail(v) ELSE v

\* rootDomains.some(root => originalDomain === root || originalDomain.endsWith('.' + root))
DomainMatches(siteConfig, originalDomain) ==
    \E root \in rootDomains(siteConfig) :
        originalDomain = root \/ EndsWith(originalDomain, <<".">> \o root)

\* The callback of cookies.map in rewriteSetCookies, for one raw value.  A
\* valueless Domain attribute holds true, and true.replace is a TypeError.
RewriteOneCookie(siteConfig, raw) ==
    LET parsed == parseCookie(raw)
        attrs  == parsed.attributes
        DOMAIN_KEY == <<"d", "o", "m", "a", "i", "n">>
        local  == TextValue(siteConfig.localSubdomain)
    IN  IF MapHas(attrs, DOMAIN_KEY)
        THEN IF MapGet(attrs, DOMAIN_KEY).isFlag
             THEN [threw |-> TRUE, cookie |-> <<>>]
             ELSE IF DomainMatches(siteConfig, StripLeadingDot(MapGet(attrs, DOMAIN_KEY).text))
             THEN [threw |-> FALSE,
                   cookie |-> serializeCookie([parsed EXCEPT
                                 !.attributes = MapSet(attrs, DOMAIN_KEY, local)])]
             ELSE [threw |-> FALSE, cookie |-> serializeCookie(parsed)]
        ELSE [threw |-> FALSE,
              cookie |-> serializeCookie([parsed EXCEPT
                            !.attributes = MapSet(attrs, DOMAIN_KEY, local)])]

(***************************************************************************)
(* The body rewriter (src/src/rewriter.js).                                *)
(***************************************************************************)
TEXT_CONTENT_TYPES ==
    <<<<"t", "e", "x", "t", "/", "h", "t", "m", "l">>,
      <<"t", "e", "x", "t", "/", "c", "s", "s">>,
      <<"t", "e", "x", "t", "/", "j", "a", "v", "a", "s", "c", "r", "i", "p", "t">>,
      <<"a", "p", "p", "l", "i", "c", "a", "t", "i", "o", "n", "/", "j", "a", "v", "a", "s", "c", "r", "i", "p", "t">>,
      <<"a", "p", "p", "l", "i", "c", "a", "t", "i", "o", "n", "/", "j", "s", "o", "n">>,
      <<"a", "p", "p", "l", "i", "c", "a", "t", "i", "o", "n", "/", "x", "m", "l">>,
      <<"t", "e", "x", "t", "/", "x", "m", "l">>,
      <<"t", "e", "x", "t", "/", "p", "l", "a", "i", "n">>,
      <<"a", "p", "p", "l", "i", "c", "a", "t", "i", "o", "n", "/", "x", "h", "t", "m", "l", "+", "x", "m", "l">>>>

\* !contentType is true of the empty string
isTextContent(contentType) ==
    /\ contentType # <<>>
    /\ \E i \in DOMAIN TEXT_CONTENT_TYPES : Includes(contentType, TEXT_CONTENT_TYPES[i])

\* process.env.HTTP_PORT || '80' and process.env.HTTPS_PORT || '443', as the
\* template strings print them (src/src/proxy.js)
HTTP_PORT  == <<"8", "0">>
HTTPS_PORT == <<"4", "4", "3">>

\* cfg.targetProtocol === 'https' ? HTTPS_PORT : HTTP_PORT
LocalPort(siteConfig) == IF siteConfig.targetProtocol = HTTPS THEN HTTPS_PORT ELSE HTTP_PORT

\* siteConfig.targetProtocol === 'https' ? 'https' : 'http'
LocalProtocol(siteConfig) == IF siteConfig.targetProtocol = HTTPS THEN HTTPS ELSE HTTP

ColonSlashSlash == <<":", "/", "/">>
SlashSlash      == <<"/", "/">>

LocalHostPort(siteConfig, localPort) == siteConfig.localSubdomain \o <<":">> \o localPort

LocalOrigin(siteConfig, localPort) ==
    LocalProtocol(siteConfig) \o ColonSlashSlash \o LocalHostPort(siteConfig, localPort)

\* the three pairs pushed for one upstream host, mapped to the local path prefix
ReplacementsFor(siteConfig, localPort, host, prefix) ==
    << [from |-> HTTPS \o ColonSlashSlash \o host,
        to   |-> LocalOrigin(siteConfig, localPort) \o prefix],
       [from |-> HTTP \o ColonSlashSlash \o host,
        to   |-> LocalOrigin(siteConfig, localPort) \o prefix],
       [from |-> SlashSlash \o host,
        to   |-> SlashSlash \o LocalHostPort(siteConfig, localPort) \o prefix] >>

RECURSIVE ExplicitReplacements(_, _, _)
ExplicitReplacements(siteConfig, localPort, rws) ==
    IF rws = <<>> THEN <<>>
    ELSE ReplacementsFor(siteConfig, localPort, Head(rws).externalHost,
                         Head(rws).localPathPrefix)
            \o ExplicitReplacements(siteConfig, localPort, Tail(rws))

\* replacements of buildRewriter: the target host first, then each explicit rewrite
replacements(siteConfig, localPort) ==
    ReplacementsFor(siteConfig, localPort, siteConfig.targetHost, <<>>)
        \o ExplicitReplacements(siteConfig, localPort, siteConfig.rewrites)

\* content.split(from).join(to): every occurrence, left to right, none overlapping;
\* the text put in is not searched again
RECURSIVE ReplaceAll(_, _, _)
ReplaceAll(content, from, to) ==
    LET idx == IndexOf(content, from)
    IN  IF idx = -1 THEN content
        ELSE SliceTo(content, idx) \o to
                \o ReplaceAll(SliceFrom(content, idx + Len(from)), from, to)

RECURSIVE ApplyReplacements(_, _)
ApplyReplacements(content, pairs) ==
    IF pairs = <<>> THEN content
    ELSE ApplyReplacements(ReplaceAll(content, Head(pairs).from, Head(pairs).to),
                           Tail(pairs))

\* the character class [a-zA-Z0-9._-] of the wildcard pattern
SubdomainChars ==
    {"a", "b", "c", "d", "e", "f", "g", "h", "i", "j", "k", "l", "m", "n", "o", "p", "q",
     "r", "s", "t", "u", "v", "w", "x", "y", "z", "D", "H", "O", "P", "S",
     "0", "1", "2", "3", "4", "5", "6", "7", "8", "9", ".", "_", "-"}

\* the length of the run of class characters of content from position i (1-based)
RECURSIVE ClassRun(_, _)
ClassRun(content, i) ==
    IF i <= Len(content) /\ content[i] \in SubdomainChars
    THEN 1 + ClassRun(content, i + 1) ELSE 0

\* The match of /(https?:)?\/\/([a-zA-Z0-9._-]+)\.<root>/ that starts at position i
\* of content, as [ok, protocol, subdomain, len].  The optional group is tried
\* first with "https:", then "http:", then empty; the class is greedy and gives
\* characters back until "." root follows.
WildcardMatchAt(content, i, root) ==
    LET rest   == SubSeq(content, i, Len(content))
        protos == << HTTPS \o <<":">>, HTTP \o <<":">>, <<>> >>
        \* with protocol text pr: the longest subdomain, 0 when there is no match
        SubLen(pr) ==
            IF ~StartsWith(rest, pr \o SlashSlash) THEN 0
            ELSE LET from == i + Len(pr) + 2
                     run  == ClassRun(content, from)
                     ks   == {k \in 1..run :
                                 OccursAt(content, <<".">> \o root, from + k)}
                 IN  IF ks = {} THEN 0 ELSE CHOOSE k \in ks : \A m \in ks : m <= k
        firstOk == {n \in 1..3 : SubLen(protos[n]) > 0}
    IN  IF firstOk = {} THEN [ok |-> FALSE, protocol |-> <<>>, subdomain |-> <<>>, len |-> 0]
        ELSE LET n  == CHOOSE n \in firstOk : \A m \in firstOk : n <= m
                 pr == protos[n]
                 k  == SubLen(pr)
             IN  [ok        |-> TRUE,
                  protocol  |-> pr,
                  subdomain |-> SubSeq(content, i + Len(pr) + 2, i + Len(pr) + 1 + k),
                  len       |-> Len(pr) + 2 + k + 1 + Len(root)]

\* content.replace(wc.regex, (match, protocol, subdomain) => ...), the g flag set:
\* matches are taken left to right from position i on
RECURSIVE WildcardReplace(_, _, _, _, _)
WildcardReplace(content, i, wc, siteConfig, localPort) ==
    IF i > Len(content) THEN <<>>
    ELSE LET m == WildcardMatchAt(content, i, wc.rootDomain)
         IN  IF m.ok
             THEN LET proto == IF m.protocol = <<>>
                               THEN LocalProtocol(siteConfig) \o <<":">>
                               ELSE m.protocol
                  IN  proto \o SlashSlash \o LocalHostPort(siteConfig, localPort)
                         \o wc.localPathPrefix \o <<"-", "-">> \o m.subdomain
                         \o WildcardReplace(content, i + m.len, wc, siteConfig, localPort)
             ELSE <<content[i]>> \o WildcardReplace(content, i + 1, wc, siteConfig, localPort)

RECURSIVE ApplyWildcards(_, _, _, _)
ApplyWildcards(content, wcs, siteConfig, localPort) ==
    IF wcs = <<>> THEN content
    ELSE ApplyWildcards(WildcardReplace(content, 1, Head(wcs), siteConfig, localPort),
                        Tail(wcs), siteConfig, localPort)

\* body.toString('utf8'): the byte xFF is no UTF-8 and decodes to U+FFFD; the other
\* bytes of the model are ASCII
Utf8Decode(bytes) == [i \in DOMAIN bytes |-> IF bytes[i] = "xFF" THEN "uFFFD" ELSE bytes[i]]

\* Buffer.from(content, 'utf8'): U+FFFD encodes as EF BF BD
RECURSIVE Utf8Encode(_)
Utf8Encode(content) ==
    IF content = <<>> THEN <<>>
    ELSE (IF Head(content) = "uFFFD" THEN <<"xEF", "xBF", "xBD">> ELSE <<Head(content)>>)
            \o Utf8Encode(Tail(content))

\* the function buildRewriter(siteConfig, localPort) returns
rewrite(siteConfig, localPort, body, contentType) ==
    IF ~siteConfig.rewriteContent THEN body
    ELSE IF ~isTextContent(contentType) THEN body
    ELSE IF body = <<>> THEN body
    ELSE Utf8Encode(
            ApplyWildcards(
                ApplyReplacements(Utf8Decode(body), replacements(siteConfig, localPort)),
                siteConfig.wildcardRewrites, siteConfig, localPort))

(***************************************************************************)
(* The proxy pipeline (src/src/proxy.js) and Router.resolve.               *)
(*                                                                         *)
(* Header objects are sequences of <<name, value>> pairs in insertion      *)
(* order.  A ServerResponse is the record res: writeHead sets headWritten, *)
(* status and headers; end sets ended and body.  A second writeHead on the *)
(* same response throws ERR_HTTP_HEADERS_SENT.                             *)
(***************************************************************************)
\* new Router(configs): routeMap.set(config.localSubdomain, config) for each config
RECURSIVE Router(_, _)
Router(map, cfgs) ==
    IF cfgs = <<>> THEN map
    ELSE Router(MapSet(map, Head(cfgs).localSubdomain, Head(cfgs)), Tail(cfgs))

\* Router.resolve: <<siteConfig>>, or <<>> for null
resolve(map, hostHeader) ==
    LET name == SplitChar(hostHeader, ":")[1]
    IN  IF MapHas(map, name) THEN <<MapGet(map, name)>> ELSE <<>>

\* Router.listRoutes
listRoutes(map) == [i \in DOMAIN map |-> map[i][2]]

\* delete obj[key]
MapDelete(attributes, key) == SelectSeq(attributes, LAMBDA pair : pair[1] # key)

\* the names of a header object, in its order
HeaderNames(headers) == {headers[i][1] : i \in DOMAIN headers}

HOP_BY_HOP ==
    {<<"c", "o", "n", "n", "e", "c", "t", "i", "o", "n">>,
     <<"k", "e", "e", "p", "-", "a", "l", "i", "v", "e">>,
     <<"p", "r", "o", "x", "y", "-", "a", "u", "t", "h", "e", "n", "t", "i", "c", "a", "t", "e">>,
     <<"p", "r", "o", "x", "y", "-", "a", "u", "t", "h", "o", "r", "i", "z", "a", "t", "i", "o", "n">>,
     <<"t", "e">>,
     <<"t", "r", "a", "i", "l", "e", "r", "s">>,
     <<"t", "r", "a", "n", "s", "f", "e", "r", "-", "e", "n", "c", "o", "d", "i", "n", "g">>,
     <<"u", "p", "g", "r", "a", "d", "e">>}

\* mutant of CopyHeaders: every entry is copied
CopyHeadersAll(headers) == headers

\* the copy loop of both directions: the entries whose name is not hop-by-hop
CopyHeaders(headers) == SelectSeq(headers, LAMBDA pair : pair[1] \notin HOP_BY_HOP)

AcceptEncodingName == <<"a", "c", "c", "e", "p", "t", "-", "e", "n", "c", "o", "d", "i", "n", "g">>
CookieHeaderName   == <<"c", "o", "o", "k", "i", "e">>
SetCookieName      == <<"s", "e", "t", "-", "c", "o", "o", "k", "i", "e">>
ContentLengthName  == <<"c", "o", "n", "t", "e", "n", "t", "-", "l", "e", "n", "g", "t", "h">>
LowerContentTypeName == <<"c", "o", "n", "t", "e", "n", "t", "-", "t", "y", "p", "e">>
LowerLocationName  == <<"l", "o", "c", "a", "t", "i", "o", "n">>

\* a number written into a header: its decimal digits
RECURSIVE ToDecimal(_)
ToDecimal(n) ==
    LET digit == <<"0", "1", "2", "3", "4", "5", "6", "7", "8", "9">>[(n % 10) + 1]
    IN  IF n < 10 THEN <<digit>> ELSE ToDecimal(n \div 10) \o <<digit>>

FreshResponse ==
    [headWritten |-> FALSE, status |-> 0, headers |-> <<>>, ended |-> FALSE, body |-> <<>>]

\* res.writeHead(status, headers) on a response whose head is not written yet
WriteHead(res, status, headers) ==
    [res EXCEPT !.headWritten = TRUE, !.status = status, !.headers = headers]

\* res.end(body)
End(res, body) == [res EXCEPT !.ended = TRUE, !.body = body]

OPTIONS == <<"O", "P", "T", "I", "O", "N", "S">>
GET     == <<"G", "E", "T">>

CORS_HEADERS ==
    <<<<<<"a", "c", "c", "e", "s", "s", "-", "c", "o", "n", "t", "r", "o", "l", "-", "a", "l", "l", "o", "w", "-", "o", "r", "i", "g", "i", "n">>,
        <<"*">>>>,
      <<<<"a", "c", "c", "e", "s", "s", "-", "c", "o", "n", "t", "r", "o", "l", "-", "a", "l", "l", "o", "w", "-", "m", "e", "t", "h", "o", "d", "s">>,
        <<"G", "E", "T", ",", " ", "P", "O", "S", "T", ",", " ", "P", "U", "T", ",", " ", "D", "E", "L", "E", "T", "E", ",", " ", "P", "A", "T", "C", "H", ",", " ", "O", "P", "T", "I", "O", "N", "S">>>>,
      <<<<"a", "c", "c", "e", "s", "s", "-", "c", "o", "n", "t", "r", "o", "l", "-", "a", "l", "l", "o", "w", "-", "h", "e", "a", "d", "e", "r", "s">>,
        <<"*">>>>,
      <<<<"a", "c", "c", "e", "s", "s", "-", "c", "o", "n", "t", "r", "o", "l", "-", "m", "a", "x", "-", "a", "g", "e">>,
        <<"8", "6", "4", "0", "0">>>>>>

\* one <tr> of landingPage, the markup between the values left out
LandingRow(c) ==
    c.name \o <<"|">> \o LocalProtocol(c) \o ColonSlashSlash \o c.localSubdomain
        \o <<":">> \o LocalPort(c) \o <<"|">> \o c.targetProtocol \o ColonSlashSlash
        \o c.targetHost

\* mutant of landingPage: the first route is left out
landingPageSkipsFirst(map) ==
    LET routes == listRoutes(map)
    IN  Join([i \in 1..(Len(routes) - 1) |-> LandingRow(routes[i + 1])], <<"\n">>)

\* landingPage(): a row for each route of router.listRoutes()
landingPage(map) ==
    LET routes == listRoutes(map)
    IN  Join([i \in DOMAIN routes |-> LandingRow(routes[i])], <<"\n">>)

ContentTypeName == <<"C", "o", "n", "t", "e", "n", "t", "-", "T", "y", "p", "e">>
LocationName    == <<"L", "o", "c", "a", "t", "i", "o", "n">>
HostName        == <<"h", "o", "s", "t">>
UserAgentName   == <<"u", "s", "e", "r", "-", "a", "g", "e", "n", "t">>
FALLBACK_UA ==
    <<"M", "o", "z", "i", "l", "l", "a", "/", "5", ".", "0", " ", "(", "W", "i", "n", "d", "o", "w", "s", " ", "N", "T", " ", "1", "0", ".", "0", ";", " ", "W", "i", "n", "6", "4", ";", " ", "x", "6", "4", ")", " ", "A", "p", "p", "l", "e", "W", "e", "b", "K", "i", "t", "/", "5", "3", "7", ".", "3", "6", " ", "(", "K", "H", "T", "M", "L", ",", " ", "l", "i", "k", "e", " ", "G", "e", "c", "k", "o", ")", " ", "C", "h", "r", "o", "m", "e", "/", "1", "2", "1", ".", "0", ".", "0", ".", "0", " ", "S", "a", "f", "a", "r", "i", "/", "5", "3", "7", ".", "3", "6">>
TextPlain       == <<"t", "e", "x", "t", "/", "p", "l", "a", "i", "n">>
TextHtmlUtf8    == <<"t", "e", "x", "t", "/", "h", "t", "m", "l", ";", " ", "c", "h", "a", "r", "s", "e", "t", "=", "u", "t", "f", "-", "8">>

\* `Proxy Error (${siteConfig.name}): ${err.message}`
ProxyErrorBody(siteConfig, message) ==
    <<"P", "r", "o", "x", "y", " ", "E", "r", "r", "o", "r", " ", "(">> \o siteConfig.name \o <<")", ":", " ">> \o message

\* an exchange no request has arrived for
IdleExchange ==
    [pc       |-> "idle",
     req      |-> [listener |-> "none", method |-> <<>>, host |-> <<>>, url |-> <<>>,
                   headers |-> <<>>],
     site     |-> <<>>,
     res      |-> FreshResponse,
     calls    |-> <<>>,
     up       |-> "none",
     reqEnded |-> FALSE,
     proxyRes |-> [statusCode |-> 0, headers |-> <<>>],
     chunks   |-> <<>>,
     errors   |-> <<>>]

\* cookies.getInjectCookies(): siteConfig.injectCookie || ''
getInjectCookies(siteConfig) == siteConfig.injectCookie

\* req.headers: the Host header, then the other inbound headers
InboundHeaders(req) == << <<HostName, req.host>> >> \o req.headers

\* the headers sent upstream.  An empty string is falsy, so an empty User-Agent
\* or Cookie is treated as a missing one.
UpstreamHeaders(req, upstream, siteConfig) ==
    Bind(CopyHeaders(InboundHeaders(req)), LAMBDA copied :
    Bind(MapSet(copied, HostName, upstream.host), LAMBDA hosted :
    Bind(MapDelete(hosted, AcceptEncodingName), LAMBDA withHost :
    Bind(IF MapHas(withHost, UserAgentName) /\ MapGet(withHost, UserAgentName) # <<>>
         THEN withHost
         ELSE MapSet(withHost, UserAgentName, FALLBACK_UA), LAMBDA withUA :
    Bind(getInjectCookies(siteConfig), LAMBDA injectCookies :
        IF injectCookies = <<>> THEN withUA
        ELSE IF MapHas(withUA, CookieHeaderName) /\ MapGet(withUA, CookieHeaderName) # <<>>
        THEN MapSet(withUA, CookieHeaderName,
                    MapGet(withUA, CookieHeaderName) \o <<";", " ">> \o injectCookies)
        ELSE MapSet(withUA, CookieHeaderName, injectCookies))))))

\* handleRequest(req, res), up to the return of the function: the exchange x after it
handleRequest(x, map) ==
    IF x.req.method = OPTIONS
    THEN [x EXCEPT !.pc = "done",
                   !.res = End(WriteHead(x.res, 204, CORS_HEADERS), <<>>)]
    ELSE LET site == resolve(map, x.req.host)
         IN  IF site = <<>>
             THEN [x EXCEPT !.pc = "done",
                            !.res = End(WriteHead(x.res, 404,
                                            << <<ContentTypeName, TextHtmlUtf8>> >>),
                                        landingPage(map))]
             ELSE LET upstream == getUpstream(site[1], x.req.url)
                      options  == [hostname  |-> upstream.host,
                                   port      |-> upstream.port,
                                   path      |-> upstream.path,
                                   method    |-> x.req.method,
                                   headers   |-> UpstreamHeaders(x.req, upstream, site[1]),
                                   transport |-> IF upstream.protocol = HTTPS
                                                 THEN HTTPS ELSE HTTP]
                  IN  [x EXCEPT !.pc = "proxying",
                                !.site = site,
                                !.calls = Append(x.calls, options),
                                !.up = "sent"]

\* mutant of httpListener: every request goes to handleRequest
httpListenerNoRedirect(x, map) == handleRequest(x, map)

\* the request listener of httpServer
httpListener(x, map) ==
    LET site == resolve(map, x.req.host)
    IN  IF site # <<>> /\ site[1].targetProtocol = HTTPS
        THEN [x EXCEPT !.pc = "done",
                       !.res = End(WriteHead(x.res, 301,
                                   << <<LocationName,
                                        HTTPS \o ColonSlashSlash \o site[1].localSubdomain
                                           \o <<":">> \o HTTPS_PORT \o x.req.url>> >>),
                                   <<>>)]
        ELSE handleRequest(x, map)

\* httpsConfigs.length > 0: the HTTPS listener exists
HasHttpsServer(cfgs) == \E i \in DOMAIN cfgs : cfgs[i].targetProtocol = HTTPS

\* cookies.rewriteSetCookies(setCookieHeaders), on the array Node gives for
\* set-cookie: the rewritten values, or threw when a callback throws
rewriteSetCookies(siteConfig, setCookieHeaders) ==
    LET each == [i \in DOMAIN setCookieHeaders |->
                    RewriteOneCookie(siteConfig, setCookieHeaders[i])]
    IN  [threw   |-> \E i \in DOMAIN each : each[i].threw,
         cookies |-> [i \in DOMAIN each |-> each[i].cookie]]

\* location.replace(new RegExp(`https?://${escapeRegex(host)}`, 'g'), to): the
\* matches are taken left to right, none overlapping, and the text put in is not
\* searched again; escapeRegex makes the host match literally
RECURSIVE ReplaceSchemeHost(_, _, _)
ReplaceSchemeHost(location, host, to) ==
    LET secure == HTTPS \o ColonSlashSlash \o host
        plain  == HTTP \o ColonSlashSlash \o host
    IN  IF location = <<>> THEN <<>>
        ELSE IF StartsWith(location, secure)
        THEN to \o ReplaceSchemeHost(SliceFrom(location, Len(secure)), host, to)
        ELSE IF StartsWith(location, plain)
        THEN to \o ReplaceSchemeHost(SliceFrom(location, Len(plain)), host, to)
        ELSE <<Head(location)>> \o ReplaceSchemeHost(Tail(location), host, to)

\* the loop over siteConfig.rewrites of the Location rewrite
RECURSIVE ReplaceRewriteHosts(_, _, _)
ReplaceRewriteHosts(location, rws, localOrigin) ==
    IF rws = <<>> THEN location
    ELSE Bind(ReplaceSchemeHost(location, Head(rws).externalHost,
                                localOrigin \o Head(rws).localPathPrefix),
              LAMBDA replaced : ReplaceRewriteHosts(replaced, Tail(rws), localOrigin))

\* the Location rewrite of the 'end' handler: the target host first, then each
\* explicit rewrite in its declared order, each on the result of the one before
rewriteLocation(siteConfig, localPort, location) ==
    LET localOrigin == LocalProtocol(siteConfig) \o ColonSlashSlash
                          \o siteConfig.localSubdomain \o <<":">> \o localPort
    IN  Bind(ReplaceSchemeHost(location, siteConfig.targetHost, localOrigin),
             LAMBDA replaced : ReplaceRewriteHosts(replaced, siteConfig.rewrites, localOrigin))

\* mutant of DeleteHeaders: nothing is deleted
DeleteHeadersNone(headers, names) == headers

\* for (const h of siteConfig.headersRemove) delete resHeaders[h]
RECURSIVE DeleteHeaders(_, _)
DeleteHeaders(headers, names) ==
    IF names = <<>> THEN headers
    ELSE DeleteHeaders(MapDelete(headers, Head(names)), Tail(names))

\* for (const [k, v] of Object.entries(siteConfig.headersAdd)) resHeaders[k] = v
RECURSIVE AddHeaders(_, _)
AddHeaders(headers, pairs) ==
    IF pairs = <<>> THEN headers
    ELSE AddHeaders(MapSet(headers, Head(pairs)[1], Head(pairs)[2]), Tail(pairs))

\* mutant of SetContentLength: a Content-Length that is already there is kept
SetContentLengthIfAbsent(headers, body) ==
    IF MapHas(headers, ContentLengthName) THEN headers
    ELSE MapSet(headers, ContentLengthName, ToDecimal(Len(body)))

\* resHeaders['content-length'] = body.length
SetContentLength(headers, body) == MapSet(headers, ContentLengthName, ToDecimal(Len(body)))

\* the 'end' handler of proxyRes up to res.writeHead: the reply's headers and body,
\* or threw when rewriteSetCookies throws
AssembleReply(siteConfig, upstreamHeaders, chunks) ==
    LET localPort   == LocalPort(siteConfig)
        contentType == IF MapHas(upstreamHeaders, LowerContentTypeName)
                       THEN MapGet(upstreamHeaders, LowerContentTypeName) ELSE <<>>
    IN
    Bind(rewrite(siteConfig, localPort, Flatten(chunks), contentType), LAMBDA body :
    Bind(CopyHeaders(upstreamHeaders), LAMBDA copied :
    Bind(DeleteHeaders(copied, siteConfig.headersRemove), LAMBDA kept :
    Bind(IF MapHas(kept, SetCookieName)
         THEN rewriteSetCookies(siteConfig, MapGet(kept, SetCookieName))
         ELSE [threw |-> FALSE, cookies |-> <<>>], LAMBDA rewritten :
    Bind(IF ~MapHas(kept, SetCookieName) THEN kept
         ELSE IF Len(rewritten.cookies) > 0
         THEN MapSet(kept, SetCookieName, rewritten.cookies)
         ELSE MapDelete(kept, SetCookieName), LAMBDA cookied :
    Bind(AddHeaders(cookied, siteConfig.headersAdd), LAMBDA added :
    Bind(SetContentLength(added, body), LAMBDA sized :
    Bind(IF MapHas(sized, LowerLocationName) /\ MapGet(sized, LowerLocationName) # <<>>
         THEN MapSet(sized, LowerLocationName,
                     rewriteLocation(siteConfig, localPort,
                                     MapGet(sized, LowerLocationName)))
         ELSE sized, LAMBDA located :
        [threw   |-> rewritten.threw,
         headers |-> IF rewritten.threw THEN <<>> ELSE located,
         body    |-> body]))))))))

\* the 'end' handler of proxyRes: the reply written from the buffered response; when
\* the assembly throws, nothing is written
proxyResEnd(x) ==
    Bind(AssembleReply(x.site[1], x.proxyRes.headers, x.chunks), LAMBDA reply :
        IF reply.threw
        THEN [x EXCEPT !.up = "ended"]
        ELSE [x EXCEPT !.up = "ended",
                       !.res = End(WriteHead(x.res, x.proxyRes.statusCode, reply.headers),
                                   reply.body)])

\* mutant of proxyReqErrorThrows: the 502 is written over the reply
proxyReqErrorWritesAgain(x, message) ==
    [x EXCEPT !.up = "failed",
              !.errors = Append(x.errors, message),
              !.res = End(WriteHead(x.res, 502, << <<ContentTypeName, TextPlain>> >>),
                          ProxyErrorBody(x.site[1], message))]

\* the 'error' handler of proxyReq, on a response whose head is written:
\* res.writeHead throws ERR_HTTP_HEADERS_SENT before it writes anything, and
\* res.end is not reached
proxyReqErrorThrows(x, message) ==
    [x EXCEPT !.up = "failed", !.errors = Append(x.errors, message)]

\* the 'error' handler of proxyReq, on a response whose head is not written yet
proxyReqError(x, message) ==
    [x EXCEPT !.up = "failed",
              !.errors = Append(x.errors, message),
              !.res = End(WriteHead(x.res, 502, << <<ContentTypeName, TextPlain>> >>),
                          ProxyErrorBody(x.site[1], message))]

(***************************************************************************)
(* Site configurations (src/src/config-parser.js, parseConfFile): the      *)
(* record the parser builds, with the fields the proxy reads.              *)
(***************************************************************************)
\* [rewrites]: "<host> = <prefix>" lines; a host starting "*." is a wildcard
RwA == [externalHost |-> <<"a", ".", "t">>, localPathPrefix |-> <<"/", "x">>]
RwB == [externalHost |-> <<"b", ".", "t">>, localPathPrefix |-> <<"/", "x", "y">>]
RwC == [externalHost |-> <<"c", ".", "t">>, localPathPrefix |-> <<"/", "x">>]
RwD == [externalHost |-> <<"d", ".", "t">>, localPathPrefix |-> <<"/", "x", "/", "v">>]

WcR == [rootDomain |-> <<"r", ".", "c", "o">>, localPathPrefix |-> <<"/", "w">>]
WcO == [rootDomain |-> <<"o", ".", "c", "o">>, localPathPrefix |-> <<"/", "w", "-">>]
WcQ == [rootDomain |-> <<"q", ".", "c", "o">>, localPathPrefix |-> <<"/", "w">>]

ExplicitPool == {RwA, RwB, RwC, RwD}
WildcardPool == {WcR, WcO, WcQ}

TargetT == <<"t", ".", "c", "o">>

SiteConfig(name, local, target, proto, port, rws, wcs) ==
    [name             |-> name,
     localSubdomain   |-> local,
     targetHost       |-> target,
     targetProtocol   |-> proto,
     targetPort       |-> port,
     rewrites         |-> rws,
     wildcardRewrites |-> wcs,
     headersRemove    |-> <<>>,
     headersAdd       |-> <<>>,
     rewriteContent   |-> TRUE,
     injectCookie     |-> <<>>]

(***************************************************************************)
(* Specification SpecResolve: getUpstream applied to every site            *)
(* configuration and request path of the bounded input sets.               *)
(***************************************************************************)
ResolveConfigs ==
    {SiteConfig(<<"s">>, <<"g", "w">>, TargetT, proto, 443, rws, wcs) :
        proto \in {HTTPS, HTTP},
        rws \in DistinctSeqsUpTo(ExplicitPool, MaxRewrites),
        wcs \in DistinctSeqsUpTo(WildcardPool, MaxRewrites)}

PathSegs ==
    {<<"/", "x">>, <<"y">>, <<"/", "v">>, <<"/", "w", "-", "-">>, <<"-">>,
     <<"a", ".", "b">>}

ResolvePaths == {Flatten(ss) : ss \in SeqsUpTo(PathSegs, MaxPathSegs)}

\* the value of an upstream that has not been computed yet
NoUpstream == [host |-> <<>>, path |-> <<>>, protocol |-> <<>>, port |-> 0]

\* the value of a cookie rewrite that has not run yet
NoCookie == [threw |-> FALSE, cookie |-> <<>>]

\* a specification that does not exercise a function leaves its variables idle
IdleConfig == SiteConfig(<<>>, <<>>, <<>>, <<>>, 0, <<>>, <<>>)

(***************************************************************************)
(* Certificates and SNI (generateAllCerts, proxy.js bootstrap and the      *)
(* HTTPS server's SNICallback).  The content of a file is written as the   *)
(* file's name: the key and certificate of a domain are <domain>.key and   *)
(* <domain>.crt.                                                           *)
(***************************************************************************)
\* configs.filter(c => c.targetProtocol === 'https')
httpsConfigs(cfgs) == SelectSeq(cfgs, LAMBDA c : c.targetProtocol = HTTPS)

\* ensureSiteCert(domain) followed by readFileSync of the two files
ensureSiteCert(domain) ==
    [key  |-> domain \o <<".", "k", "e", "y">>,
     cert |-> domain \o <<".", "c", "r", "t">>]

\* generateAllCerts continued from the Map built so far
RECURSIVE generateCertsFrom(_, _)
generateCertsFrom(map, cfgs) ==
    IF cfgs = <<>> THEN map
    ELSE generateCertsFrom(
             MapSet(map, Head(cfgs).localSubdomain, ensureSiteCert(Head(cfgs).localSubdomain)),
             Tail(cfgs))

generateAllCerts(cfgs) == generateCertsFrom(<<>>, cfgs)

\* let certMap = new Map(); if (httpsConfigs.length > 0) certMap = generateAllCerts(httpsConfigs)
BootCertMap(cfgs) ==
    IF httpsConfigs(cfgs) # <<>> THEN generateAllCerts(httpsConfigs(cfgs)) ELSE <<>>

\* certMap.values().next().value
defaultCert(map) == map[1][2]

\* mutant of SNICallback: the default pair for every servername
SNICallbackAlwaysDefault(map, servername) ==
    [err |-> "null", key |-> defaultCert(map).key, cert |-> defaultCert(map).cert]

\* SNICallback(servername, cb): the arguments cb is called with
SNICallback(map, servername) ==
    IF MapHas(map, servername)
    THEN [err |-> "null", key |-> MapGet(map, servername).key,
                          cert |-> MapGet(map, servername).cert]
    ELSE [err |-> "null", key |-> defaultCert(map).key, cert |-> defaultCert(map).cert]


RqIdle == rqConfig = IdleConfig /\ rqPath = <<>> /\ rqResult = NoUpstream /\ rqPc = "idle"

CkIdle == ckConfig = IdleConfig /\ ckRaw = <<>> /\ ckOut = NoCookie /\ ckPc = "idle"

BwIdle ==
    /\ bwConfig = IdleConfig /\ bwBody = <<>> /\ bwType = <<>> /\ bwOut = <<>>
    /\ bwPc = "idle"

PxIdle == configs = <<>> /\ routeMap = <<>> /\ exchanges = <<>> /\ crashed = FALSE

NoContext == [err |-> "none", key |-> <<>>, cert |-> <<>>]

\* no SNICallback has run
SniQuiet == sniServername = <<>> /\ sniContext = NoContext /\ sniPc = "idle"

SniIdle == certMap = <<>> /\ SniQuiet

InitResolve ==
    /\ rqConfig \in ResolveConfigs
    /\ rqPath \in ResolvePaths
    /\ rqResult = NoUpstream
    /\ rqPc = "call"
    /\ CkIdle
    /\ BwIdle
    /\ PxIdle
    /\ SniIdle

Resolve ==
    /\ rqPc = "call"
    /\ rqResult' = getUpstream(rqConfig, rqPath)
    /\ rqPc' = "returned"
    /\ UNCHANGED <<rqConfig, rqPath>>
    /\ UNCHANGED <<ckVars, bwVars, pxVars, sniVars>>

NextResolve == Resolve

SpecResolve == InitResolve /\ [][NextResolve]_vars

(***************************************************************************)
(* Specification SpecCookie: rewriteSetCookies applied to one raw          *)
(* Set-Cookie value, for every configuration and value of the bounded      *)
(* input sets.                                                             *)
(***************************************************************************)
LocalGw == <<"g", "w">>

CookieConfigs ==
    {SiteConfig(<<"s">>, LocalGw, target, HTTPS, 443, rws, wcs) :
        target \in {TargetT, <<"w", ".", "t", ".", "c", "o">>},
        rws \in {<<>>, <<RwA>>},
        wcs \in {<<>>, <<WcR>>}}

CookieName == <<"n", "=", "1">>

\* the first part of a raw value: a name=value pair, or a bare name
CookieNames == {CookieName, <<"n">>}

CookieAttrs ==
    {<<"S", "e", "c", "u", "r", "e">>,
     <<"H", "t", "t", "p", "O", "n", "l", "y">>,
     <<"p", "a", "t", "h", "=", "/">>,
     <<"d", "o", "m", "a", "i", "n", "=", ".", "t", ".", "c", "o">>,
     <<"D", "o", "m", "a", "i", "n", "=", "x", ".", "t", ".", "c", "o">>,
     <<"d", "o", "m", "a", "i", "n", "=", "u", ".", "c", "o">>,
     <<"d", "o", "m", "a", "i", "n", "=", "a", "t", ".", "c", "o">>,
     <<"D", "o", "m", "a", "i", "n">>}

\* the raw values: the name, then each attribute after "; "
RawCookies ==
    {first \o Flatten([i \in DOMAIN attrs |-> <<";", " ">> \o attrs[i]]) :
        first \in CookieNames, attrs \in SeqsUpTo(CookieAttrs, MaxCookieAttrs)}

InitCookie ==
    /\ ckConfig \in CookieConfigs
    /\ ckRaw \in RawCookies
    /\ ckOut = NoCookie
    /\ ckPc = "call"
    /\ RqIdle
    /\ BwIdle
    /\ PxIdle
    /\ SniIdle

RewriteSetCookie ==
    /\ ckPc = "call"
    /\ ckOut' = RewriteOneCookie(ckConfig, ckRaw)
    /\ ckPc' = "returned"
    /\ UNCHANGED <<ckConfig, ckRaw>>
    /\ UNCHANGED <<rqVars, bwVars, pxVars, sniVars>>

NextCookie == RewriteSetCookie

SpecCookie == InitCookie /\ [][NextCookie]_vars

(***************************************************************************)
(* C4 and C5 read the raw Set-Cookie value as text: its pieces are the     *)
(* texts between the ';', a domain attribute is a piece after the first    *)
(* whose name is "domain" in any letter case, and the value of the         *)
(* attribute is the text after its '='.                                    *)
(***************************************************************************)
DomainEq == <<"d", "o", "m", "a", "i", "n", "=">>

\* piece k of the raw value is a domain attribute with a value
IsDomainPiece(raw, k) ==
    LET piece == TrimStart(SplitChar(raw, ";")[k])
    IN  k >= 2 /\ Len(piece) > Len(DomainEq)
               /\ ToLowerCase(SubSeq(piece, 1, Len(DomainEq))) = DomainEq

\* piece k of the raw value is a domain attribute without a value
IsDomainFlagPiece(raw, k) ==
    k >= 2 /\ ToLowerCase(Trim(SplitChar(raw, ";")[k])) = SubSeq(DomainEq, 1, 6)

\* the raw value carries exactly one domain attribute, piece k, and it has a value
OnlyDomainPiece(raw, k) ==
    LET n == Len(SplitChar(raw, ";"))
    IN  /\ k \in 2..n
        /\ IsDomainPiece(raw, k)
        /\ \A m \in 2..n : m # k => ~IsDomainPiece(raw, m) /\ ~IsDomainFlagPiece(raw, m)

\* the value of the domain attribute in piece k
DomainValueOf(raw, k) ==
    LET piece == SplitChar(raw, ";")[k]
    IN  SubSeq(piece, IndexOf(piece, <<"=">>) + 2, Len(piece))

\* the domain (a leading dot dropped) equals a root domain or ends with "." root
IsUpstreamDomain(siteConfig, value) ==
    LET dom == IF value[1] = "." THEN SubSeq(value, 2, Len(value)) ELSE value
    IN  \E root \in rootDomains(siteConfig) :
            \/ dom = root
            \/ /\ Len(dom) > Len(root)
               /\ SubSeq(dom, Len(dom) - Len(root) + 1, Len(dom)) = root
               /\ dom[Len(dom) - Len(root)] = "."

\* the raw value with the value of the domain attribute in piece k replaced by host
WithDomainValue(raw, k, host) ==
    LET pieces == SplitChar(raw, ";")
        piece  == pieces[k]
    IN  Join([pieces EXCEPT ![k] = SubSeq(piece, 1, IndexOf(piece, <<"=">>) + 1) \o host],
             <<";">>)

(* C4.  A Set-Cookie value whose domain attribute names an upstream domain *)
(* comes back as the same text with only the domain value replaced by the  *)
(* route's localSubdomain: the other attributes, their spelling and their  *)
(* order are unchanged.                                                    *)
C4_DomainRewritePreservesRest ==
    ckPc = "returned" =>
        \A k \in 1..Len(ckRaw) :
            /\ OnlyDomainPiece(ckRaw, k)
            /\ IsUpstreamDomain(ckConfig, DomainValueOf(ckRaw, k))
            => /\ ~ckOut.threw
               /\ ckOut.cookie = WithDomainValue(ckRaw, k, ckConfig.localSubdomain)

(* C5.  A Set-Cookie value whose domain attribute names no upstream domain *)
(* of the route comes back unchanged, whatever its other attributes are.   *)
C5_NonMatchingCookieUnchanged ==
    ckPc = "returned" =>
        \A k \in 1..Len(ckRaw) :
            /\ OnlyDomainPiece(ckRaw, k)
            /\ ~IsUpstreamDomain(ckConfig, DomainValueOf(ckRaw, k))
            => /\ ~ckOut.threw
               /\ ckOut.cookie = ckRaw

(***************************************************************************)
(* Specification SpecRewrite: the rewrite function of a route applied to   *)
(* one body and content type, for every configuration, body and type of    *)
(* the bounded input sets.                                                 *)
(***************************************************************************)
\* a local hostname in the README's style, and one that starts with the target host
LocalTGw == TargetT \o <<".">> \o LocalGw

RewriteConfigs ==
    {[SiteConfig(<<"s">>, local, TargetT, proto, 443, rws, wcs)
         EXCEPT !.rewriteContent = enabled] :
        local \in {LocalGw, LocalTGw},
        proto \in {HTTPS, HTTP},
        enabled \in BOOLEAN,
        rws \in {<<>>, <<RwA>>},
        wcs \in {<<>>, <<WcR>>}}

TextHtml == <<"t", "e", "x", "t", "/", "h", "t", "m", "l">>
ImagePng == <<"i", "m", "a", "g", "e", "/", "p", "n", "g">>

ContentTypes ==
    {TextHtml, ImagePng, <<>>, TextHtml \o <<";", " ", "c", "h", "a", "r", "s", "e", "t", "=", "u", "t", "f", "-", "8">>}

BodySegs ==
    {HTTPS \o ColonSlashSlash, HTTP \o ColonSlashSlash, SlashSlash, TargetT,
     RwA.externalHost, <<"x", ".">> \o WcR.rootDomain, <<"/", "p">>, <<"xFF">>}

Bodies == {Flatten(ss) : ss \in SeqsUpTo(BodySegs, MaxBodySegs)}

InitRewrite ==
    /\ bwConfig \in RewriteConfigs
    /\ bwBody \in Bodies
    /\ bwType \in ContentTypes
    /\ bwOut = <<>>
    /\ bwPc = "call"
    /\ RqIdle
    /\ CkIdle
    /\ PxIdle
    /\ SniIdle

Rewrite ==
    /\ bwPc = "call"
    /\ bwOut' = rewrite(bwConfig, LocalPort(bwConfig), bwBody, bwType)
    /\ bwPc' = "returned"
    /\ UNCHANGED <<bwConfig, bwBody, bwType>>
    /\ UNCHANGED <<rqVars, ckVars, pxVars, sniVars>>

NextRewrite == Rewrite

SpecRewrite == InitRewrite /\ [][NextRewrite]_vars

(***************************************************************************)
(* C3.  Body rewrite gating.  The body comes back byte for byte when the   *)
(* content type holds none of the recognized text types, when              *)
(* rewriteContent is false, or when the body is empty.  Under text/html    *)
(* with rewriting enabled the result holds no occurrence of                *)
(* https://<targetHost>, and an occurrence standing between texts that     *)
(* hold nothing to rewrite has become the local origin.                    *)
(***************************************************************************)
RecognizedType(contentType) ==
    \E i \in DOMAIN TEXT_CONTENT_TYPES : \E n \in 1..Len(contentType) :
        /\ n + Len(TEXT_CONTENT_TYPES[i]) - 1 <= Len(contentType)
        /\ SubSeq(contentType, n, n + Len(TEXT_CONTENT_TYPES[i]) - 1) = TEXT_CONTENT_TYPES[i]

\* text that holds no URL and no byte the UTF-8 round trip changes
PlainText(s) == \A n \in DOMAIN s : s[n] \notin {"/", "xFF"}

C3_BodyRewriteGating ==
    bwPc = "returned" =>
        LET needle == HTTPS \o ColonSlashSlash \o bwConfig.targetHost
            origin == LocalProtocol(bwConfig) \o ColonSlashSlash
                         \o bwConfig.localSubdomain \o <<":">> \o LocalPort(bwConfig)
        IN  /\ (~RecognizedType(bwType) \/ ~bwConfig.rewriteContent \/ bwBody = <<>>)
                  => bwOut = bwBody
            /\ (bwType = TextHtml /\ bwConfig.rewriteContent)
                  => /\ ~Includes(bwOut, needle)
                     /\ \A n \in 1..Len(bwBody) :
                           LET pre  == SubSeq(bwBody, 1, n - 1)
                               post == SubSeq(bwBody, n + Len(needle), Len(bwBody))
                           IN  ( /\ OccursAt(bwBody, needle, n)
                                 /\ PlainText(pre) /\ PlainText(post) )
                               => bwOut = pre \o origin \o post

(***************************************************************************)
(* Specification Spec: the proxy process.  Init is the state after the     *)
(* bootstrap of proxy.js; the actions are the arrival of a request on a    *)
(* listener and the events of the exchanges in flight, interleaved.        *)
(***************************************************************************)
\* s1.conf also has [headers.remove], [headers.add] and inject_cookie
Site1 ==
    [SiteConfig(<<"s", "1">>, LocalGw, TargetT, HTTPS, 443, <<RwA>>, <<WcR>>)
        EXCEPT !.headersRemove = <<<<"x", "-", "r">>>>,
               !.headersAdd = << <<<<"x", "-", "f">>, <<"1">>>> >>,
               !.injectCookie = <<"i", "=", "1">>]
Site2 == SiteConfig(<<"s", "2">>, <<"h", "w">>, <<"u", ".", "c", "o">>, HTTP, 80, <<>>, <<>>)
Site3 == SiteConfig(<<"s", "3">>, <<"h", "w">>, <<"v", ".", "c", "o">>, HTTP, 80, <<RwA>>, <<>>)

\* the lists of configurations the process may have loaded; in the second, two
\* files declare the local hostname hw
ConfigLists == {<<Site1, Site2>>, <<Site2, Site1, Site3>>}

RequestHosts == {LocalGw, <<"h", "w", ":", "8", "0">>, <<"n", "o">>}
RequestUrls  == {<<"/", "x", "/", "v">>, <<"/", "p", "?", "q">>}
RequestMethods == {GET, OPTIONS}
Listeners == {"http", "https"}

UpstreamStatusCodes == {200}
UpstreamContentTypes == {TextHtml, ImagePng}
\* the headers of the model's upstream responses, as Node gives them (names in
\* lower case, set-cookie an array): an HTML page that sets a cookie and carries a
\* Location, and an image whose cookie has a Domain attribute without a value
UpstreamHeadersFor(type) ==
    IF type = TextHtml
    THEN <<<<LowerContentTypeName, type>>,
         <<<<"c", "o", "n", "t", "e", "n", "t", "-", "l", "e", "n", "g", "t", "h">>, <<"1", "4">>>>,
         <<<<"t", "r", "a", "n", "s", "f", "e", "r", "-", "e", "n", "c", "o", "d", "i", "n", "g">>, <<"c", "h", "u", "n", "k", "e", "d">>>>,
         <<<<"x", "-", "r">>, <<"1">>>>,
         <<<<"s", "e", "t", "-", "c", "o", "o", "k", "i", "e">>, <<<<"n", "=", "1", ";", " ", "d", "o", "m", "a", "i", "n", "=", ".", "t", ".", "c", "o", ";", " ", "S", "e", "c", "u", "r", "e">>>>>>,
         <<<<"l", "o", "c", "a", "t", "i", "o", "n">>, <<"h", "t", "t", "p", "s", ":", "/", "/", "a", ".", "t", "/", "v">>>>>>
    ELSE << <<LowerContentTypeName, type>>,
            <<SetCookieName, <<<<"n", "=", "1", ";", " ", "D", "o", "m", "a", "i", "n">>>> >> >>

\* the inbound headers of the model's requests, besides Host
RequestHeaderSets ==
    {<<<<<<"u", "s", "e", "r", "-", "a", "g", "e", "n", "t">>, <<"c">>>>,
      <<<<"c", "o", "o", "k", "i", "e">>, <<"c", "=", "1">>>>,
      <<<<"c", "o", "n", "n", "e", "c", "t", "i", "o", "n">>, <<"c", "l", "o", "s", "e">>>>,
      <<<<"a", "c", "c", "e", "p", "t", "-", "e", "n", "c", "o", "d", "i", "n", "g">>, <<"g", "z", "i", "p">>>>>>}

UpstreamChunks == {HTTPS \o ColonSlashSlash \o TargetT \o <<"/", "p">>}
ErrorMessages == {<<"E", "C", "O", "N", "N", "R", "E", "F", "U", "S", "E", "D">>}

Init ==
    /\ configs \in ConfigLists
    /\ routeMap = Router(<<>>, configs)
    /\ exchanges = [e \in 1..MaxExchanges |-> IdleExchange]
    /\ crashed = FALSE
    /\ certMap = BootCertMap(configs)
    /\ SniQuiet
    /\ RqIdle
    /\ CkIdle
    /\ BwIdle

\* a request arrives on a listener and its request listener runs to its return;
\* the requests are drawn from the given hosts, URLs and header sets
AcceptFrom(e, hosts, urls, headerSets) ==
    /\ ~crashed
    /\ exchanges[e].pc = "idle"
    /\ \A d \in 1..(e - 1) : exchanges[d].pc # "idle"
    /\ \E listener \in Listeners, method \in RequestMethods,
          host \in hosts, url \in urls, headers \in headerSets :
          /\ listener = "https" => HasHttpsServer(configs)
          /\ LET x == [exchanges[e] EXCEPT
                          !.req = [listener |-> listener, method |-> method,
                                   host |-> host, url |-> url, headers |-> headers]]
             IN  exchanges' = [exchanges EXCEPT
                     ![e] = IF listener = "http"
                            THEN httpListener(x, routeMap)
                            ELSE handleRequest(x, routeMap)]
    /\ UNCHANGED <<configs, routeMap, crashed>>
    /\ UNCHANGED <<rqVars, ckVars, bwVars, sniVars>>

Accept(e) == AcceptFrom(e, RequestHosts, RequestUrls, RequestHeaderSets)

\* req 'end': proxyReq.end()
InboundEnd(e) ==
    /\ ~crashed
    /\ exchanges[e].pc = "proxying"
    /\ ~exchanges[e].reqEnded
    /\ exchanges' = [exchanges EXCEPT ![e].reqEnded = TRUE]
    /\ UNCHANGED <<configs, routeMap, crashed>>
    /\ UNCHANGED <<rqVars, ckVars, bwVars, sniVars>>

\* the response callback of transport.request: the upstream's status line and headers
UpstreamResponse(e) ==
    /\ ~crashed
    /\ exchanges[e].up = "sent"
    /\ \E code \in UpstreamStatusCodes, type \in UpstreamContentTypes :
          exchanges' = [exchanges EXCEPT
              ![e].up = "headers",
              ![e].proxyRes = [statusCode |-> code,
                               headers |-> UpstreamHeadersFor(type)]]
    /\ UNCHANGED <<configs, routeMap, crashed>>
    /\ UNCHANGED <<rqVars, ckVars, bwVars, sniVars>>

\* proxyRes 'data': chunks.push(c), on the chunks array of the exchange's own
\* response callback; the chunk is drawn from the given set
UpstreamDataFrom(e, chunkSet) ==
    /\ ~crashed
    /\ exchanges[e].up = "headers"
    /\ Len(exchanges[e].chunks) < MaxChunks
    /\ \E c \in chunkSet :
          exchanges' = [exchanges EXCEPT ![e].chunks = Append(@, c)]
    /\ UNCHANGED <<configs, routeMap, crashed>>
    /\ UNCHANGED <<rqVars, ckVars, bwVars, sniVars>>

UpstreamData(e) == UpstreamDataFrom(e, UpstreamChunks)

\* proxyRes 'end'.  An exception thrown in the handler is caught by nothing: the
\* process ends.
UpstreamEnd(e) ==
    /\ ~crashed
    /\ exchanges[e].up = "headers"
    /\ exchanges' = [exchanges EXCEPT ![e] = proxyResEnd(@)]
    /\ crashed' = AssembleReply(exchanges[e].site[1], exchanges[e].proxyRes.headers,
                                exchanges[e].chunks).threw
    /\ UNCHANGED <<configs, routeMap>>
    /\ UNCHANGED <<rqVars, ckVars, bwVars, sniVars>>

\* the upstream closes the connection before its response is complete: proxyRes
\* emits 'aborted' and 'close', for which the code has no handler; proxyReq emits
\* no 'error' once the response has started, and 'end' never comes
UpstreamAbort(e) ==
    /\ ~crashed
    /\ exchanges[e].up = "headers"
    /\ exchanges' = [exchanges EXCEPT ![e].up = "aborted"]
    /\ UNCHANGED <<configs, routeMap, crashed>>
    /\ UNCHANGED <<rqVars, ckVars, bwVars, sniVars>>

\* proxyReq 'error'.  The socket can fail before the upstream answers, while its
\* response is arriving, and after the response has ended while the inbound
\* request body is still being written to it.  When the reply is already
\* written, res.writeHead throws in the handler and nothing catches it.
UpstreamError(e) ==
    /\ ~crashed
    /\ \/ exchanges[e].up \in {"sent", "headers"}
       \/ exchanges[e].up = "ended" /\ ~exchanges[e].reqEnded
    /\ \E message \in ErrorMessages :
          IF exchanges[e].res.headWritten
          THEN /\ crashed' = TRUE
               /\ exchanges' = [exchanges EXCEPT ![e] = proxyReqErrorThrows(@, message)]
          ELSE /\ crashed' = FALSE
               /\ exchanges' = [exchanges EXCEPT ![e] = proxyReqError(@, message)]
    /\ UNCHANGED <<configs, routeMap>>
    /\ UNCHANGED <<rqVars, ckVars, bwVars, sniVars>>

Next ==
    \E e \in 1..MaxExchanges :
        \/ Accept(e)
        \/ InboundEnd(e)
        \/ UpstreamResponse(e)
        \/ UpstreamData(e)
        \/ UpstreamEnd(e)
        \/ UpstreamAbort(e)
        \/ UpstreamError(e)

Spec == Init /\ [][Next]_vars

(***************************************************************************)
(* Specification SpecAssembly: the proxyRes 'end' handler applied to an    *)
(* exchange whose upstream response has arrived, for every configuration,  *)
(* upstream header set and body of the bounded input sets.  Init is the    *)
(* state handleRequest and the response callback leave behind.             *)
(***************************************************************************)
\* an external host the target host is a string prefix of
RwU == [externalHost |-> TargetT \o <<".", "u", "k">>, localPathPrefix |-> <<"/", "k">>]

\* the lines of [headers.remove] as written in the file; the parser lowercases them
HeadersRemoveLines ==
    {<<>>, <<<<"X", "-", "R">>>>, <<<<"C", "o", "n", "t", "e", "n", "t", "-", "L", "e", "n", "g", "t", "h">>>>, <<<<"l", "o", "c", "a", "t", "i", "o", "n">>>>,
     <<<<"s", "e", "t", "-", "c", "o", "o", "k", "i", "e">>, <<"x", "-", "r">>>>}

\* the entries of [headers.add], keys lowercased by the parser
HeadersAddSets ==
    {<<>>,
     << <<<<"x", "-", "f">>, <<"1">>>> >>,
     << <<<<"x", "-", "r">>, <<"2">>>> >>,
     << <<ContentLengthName, <<"5">>>> >>}

AssemblyConfigs ==
    {[SiteConfig(<<"s">>, LocalGw, TargetT, proto, 443, rws, <<>>)
         EXCEPT !.headersRemove = [i \in DOMAIN lines |-> ToLowerCase(lines[i])],
                !.headersAdd = adds] :
        proto \in {HTTPS, HTTP},
        rws \in {<<>>, <<RwA>>, <<RwU>>},
        lines \in HeadersRemoveLines,
        adds \in HeadersAddSets}

LocationPath == <<"/", "z">>

\* the hosts an upstream Location names: the target host, the external hosts of the
\* explicit rewrites, and a host outside the route
LocationHosts == {TargetT, RwA.externalHost, RwU.externalHost, <<"o", ".", "c", "o">>}

UpstreamLocations ==
    {scheme \o ColonSlashSlash \o host \o LocationPath :
        scheme \in {HTTPS, HTTP}, host \in LocationHosts}

\* an upstream header object: content-type and transfer-encoding, and any of
\* content-length, x-r, set-cookie and location
AssemblyUpstreamHeaders ==
    {<< <<LowerContentTypeName, type>>,
        <<<<"t", "r", "a", "n", "s", "f", "e", "r", "-", "e", "n", "c", "o", "d", "i", "n", "g">>, <<"c", "h", "u", "n", "k", "e", "d">>>> >>
       \o (IF hasLength THEN << <<ContentLengthName, <<"9", "9">>>> >> ELSE <<>>)
       \o (IF hasXr THEN << <<<<"x", "-", "r">>, <<"1">>>> >> ELSE <<>>)
       \o (IF hasCookie
           THEN << <<SetCookieName, <<<<"n", "=", "1", ";", " ", "d", "o", "m", "a", "i", "n", "=", ".", "t", ".", "c", "o", ";", " ", "S", "e", "c", "u", "r", "e">>>> >> >>
           ELSE <<>>)
       \o locs :
        type \in {TextHtml, ImagePng},
        hasLength \in BOOLEAN, hasXr \in BOOLEAN, hasCookie \in BOOLEAN,
        locs \in {<<>>} \cup {<< <<LowerLocationName, l>> >> : l \in UpstreamLocations}}

\* the chunks received: none, a URL of the target host, a byte that is no UTF-8
AssemblyChunkLists ==
    {<<>>, <<HTTPS \o ColonSlashSlash \o TargetT>>, << <<"a">>, <<"xFF">> >>}

\* the exchange after handleRequest for GET /p on the route's listener and after
\* the response callback and the 'data' events
MidExchange(cfg, headers, chunks) ==
    LET request == [listener |-> IF cfg.targetProtocol = HTTPS THEN "https" ELSE "http",
                    method |-> GET, host |-> cfg.localSubdomain, url |-> <<"/", "p">>,
                    headers |-> <<>>]
        x == handleRequest([IdleExchange EXCEPT !.req = request], Router(<<>>, <<cfg>>))
    IN  [x EXCEPT !.up = "headers",
                  !.proxyRes = [statusCode |-> 302, headers |-> headers],
                  !.chunks = chunks]

InitAssembly ==
    /\ \E cfg \in AssemblyConfigs, headers \in AssemblyUpstreamHeaders,
          chunks \in AssemblyChunkLists :
          /\ configs = <<cfg>>
          /\ routeMap = Router(<<>>, configs)
          /\ exchanges = [e \in 1..MaxExchanges |->
                             IF e = 1 THEN MidExchange(cfg, headers, chunks)
                             ELSE IdleExchange]
          /\ certMap = BootCertMap(configs)
    /\ crashed = FALSE
    /\ SniQuiet
    /\ RqIdle
    /\ CkIdle
    /\ BwIdle

NextAssembly == \E e \in 1..MaxExchanges : UpstreamEnd(e)

SpecAssembly == InitAssembly /\ [][NextAssembly]_vars

(***************************************************************************)
(* C1.  Longest prefix wins: when some explicit rewrite matches the path   *)
(* (its localPathPrefix equals the path, or is followed by '/' in it), the *)
(* upstream is the matching rewrite with the longest localPathPrefix, the  *)
(* first declared among equally long ones; the host is its externalHost    *)
(* and the path is the request path with the prefix stripped, '/' when     *)
(* nothing remains.  With rewrites /x -> a.t and /xy -> b.t in either      *)
(* order, /xy/v resolves to b.t and /v.                                    *)
(***************************************************************************)
MatchingRewrites(siteConfig, requestPath) ==
    {i \in DOMAIN siteConfig.rewrites :
        LET p == siteConfig.rewrites[i].localPathPrefix
        IN  \/ requestPath = p
            \/ /\ Len(requestPath) > Len(p)
               /\ SubSeq(requestPath, 1, Len(p)) = p
               /\ requestPath[Len(p) + 1] = "/"}

\* i is a longest match, and the first declared of that length
IsLongestMatch(siteConfig, requestPath, i) ==
    LET M   == MatchingRewrites(siteConfig, requestPath)
        len(j) == Len(siteConfig.rewrites[j].localPathPrefix)
    IN  /\ i \in M
        /\ \A j \in M : len(j) < len(i) \/ (len(j) = len(i) /\ i <= j)

C1_LongestPrefixWins ==
    rqPc = "returned" =>
        /\ \A i \in DOMAIN rqConfig.rewrites :
              IsLongestMatch(rqConfig, rqPath, i) =>
                 LET rw   == rqConfig.rewrites[i]
                     rest == SubSeq(rqPath, Len(rw.localPathPrefix) + 1, Len(rqPath))
                 IN  /\ rqResult.host = rw.externalHost
                     /\ rqResult.path = IF rest = <<>> THEN <<"/">> ELSE rest
        /\ ( /\ rqPath = <<"/", "x", "y", "/", "v">>
             /\ rqConfig.rewrites \in {<<RwA, RwB>>, <<RwB, RwA>>} )
           => (rqResult.host = RwB.externalHost /\ rqResult.path = <<"/", "v">>)

\* two rewrites match the path, the longer one declared last, and the call returned
C1_Witness ==
    /\ rqPc = "returned"
    /\ rqConfig.rewrites = <<RwA, RwD>>
    /\ rqPath = <<"/", "x", "/", "v", "/", "v">>
    /\ rqResult.host = RwD.externalHost
    /\ rqResult.path = <<"/", "v">>

(***************************************************************************)
(* C2.  Wildcard decoding.  The path is read as                            *)
(*     <localPathPrefix> "--" <label> <rest>                               *)
(* for a wildcard rewrite of the route, where the label holds neither '/'  *)
(* nor '--' and the rest is empty or starts with '/'.                      *)
(***************************************************************************)
\* the path is prefix(i) "--" label rest, the label being the k characters after "--"
IsWildcardPath(siteConfig, requestPath, i, k) ==
    LET pre   == siteConfig.wildcardRewrites[i].localPathPrefix \o <<"-", "-">>
        after == SubSeq(requestPath, Len(pre) + 1, Len(requestPath))
    IN  /\ Len(requestPath) >= Len(pre)
        /\ SubSeq(requestPath, 1, Len(pre)) = pre
        /\ k <= Len(after)
        /\ \A n \in 1..k : after[n] # "/"
        /\ \A n \in 1..(k - 1) : ~(after[n] = "-" /\ after[n + 1] = "-")
        /\ (k < Len(after) => after[k + 1] = "/")

\* what the claim says the upstream is for that reading of the path
IsDecoded(siteConfig, requestPath, i, k, upstream) ==
    LET wc    == siteConfig.wildcardRewrites[i]
        pre   == wc.localPathPrefix \o <<"-", "-">>
        after == SubSeq(requestPath, Len(pre) + 1, Len(requestPath))
        label == SubSeq(after, 1, k)
        rest  == SubSeq(after, k + 1, Len(after))
    IN  /\ upstream.host = label \o <<".">> \o wc.rootDomain
        /\ upstream.path = IF rest = <<>> THEN <<"/">> ELSE rest
        /\ upstream.protocol = siteConfig.targetProtocol
        /\ upstream.port = siteConfig.targetPort

\* an earlier declared wildcard rewrite also claims the path
ShadowedWildcard(siteConfig, requestPath, i) ==
    \E j \in 1..(i - 1) :
        LET pre == siteConfig.wildcardRewrites[j].localPathPrefix \o <<"-", "-">>
        IN  Len(requestPath) >= Len(pre) /\ SubSeq(requestPath, 1, Len(pre)) = pre

StripPort(hostHeader) ==
    IF IndexOf(hostHeader, <<":">>) = -1 THEN hostHeader
    ELSE SliceTo(hostHeader, IndexOf(hostHeader, <<":">>))

\* configuration i is a route: no configuration loaded after it declares the same
\* local hostname (of two declarations of one hostname the last loaded is the route)
IsRoute(i) ==
    \A j \in DOMAIN configs :
        j > i => configs[j].localSubdomain # configs[i].localSubdomain

\* the routes for the Host header of a request: none, or one
RoutesFor(hostHeader) ==
    {i \in DOMAIN configs :
        IsRoute(i) /\ configs[i].localSubdomain = StripPort(hostHeader)}

\* the value of the header name in a list of <<name, value>> pairs; <<>> when absent
HeaderGet(headers, name) ==
    IF \E i \in DOMAIN headers : headers[i][1] = name
    THEN headers[CHOOSE i \in DOMAIN headers : headers[i][1] = name][2]
    ELSE <<>>

Accepted(e) == exchanges[e].pc # "idle"

(***************************************************************************)
(* C6.  CORS short-circuit: every OPTIONS request, on either listener and  *)
(* for any host, is answered 204 with the four CORS headers, and no        *)
(* upstream request is issued for it.                                      *)
(* The statement does not hold of the program: the HTTP listener tests the *)
(* route's target protocol before it hands the request to handleRequest,   *)
(* so an OPTIONS request for an https-target route gets the 301.           *)
(***************************************************************************)
C6_OptionsShortCircuit ==
    \A e \in DOMAIN exchanges :
        Accepted(e) /\ exchanges[e].req.method = OPTIONS =>
            /\ exchanges[e].res.status = 204
            /\ exchanges[e].res.headers = CORS_HEADERS
            /\ exchanges[e].calls = <<>>

(***************************************************************************)
(* C7.  Unmatched host: a request that is not OPTIONS and whose Host       *)
(* header, port suffix stripped, is no route's local hostname is answered  *)
(* 404 with a landing page that contains the name of every route; no       *)
(* upstream request is issued and the process keeps running.               *)
(***************************************************************************)
C7_UnmatchedHost ==
    \A e \in DOMAIN exchanges :
        LET x == exchanges[e]
        IN  Accepted(e) /\ x.req.method # OPTIONS /\ RoutesFor(x.req.host) = {} =>
                /\ x.pc = "done"
                /\ x.res.status = 404
                /\ x.res.ended
                /\ \A i \in DOMAIN configs : IsRoute(i) => Includes(x.res.body, configs[i].name)
                /\ x.calls = <<>>
                /\ x.errors = <<>>

C7_Witness ==
    \E e \in DOMAIN exchanges :
        /\ Accepted(e)
        /\ exchanges[e].req.method = GET
        /\ exchanges[e].req.host = <<"n", "o">>
        /\ Len(configs) = 3
        /\ exchanges[e].res.status = 404
        /\ Includes(exchanges[e].res.body, Site3.name)

(***************************************************************************)
(* C8.  A request on the HTTP listener for a route whose target protocol   *)
(* is https is answered 301 with Location https://<local hostname>:<HTTPS  *)
(* port><request URL>, with no upstream resolution and no upstream call;   *)
(* a request on the HTTP listener for any other route is not redirected    *)
(* and goes through handleRequest.                                         *)
(***************************************************************************)
C8_HttpsOnlyRedirect ==
    \A e \in DOMAIN exchanges :
        LET x == exchanges[e]
        IN  Accepted(e) /\ x.req.listener = "http" =>
                \A i \in RoutesFor(x.req.host) :
                    IF configs[i].targetProtocol = HTTPS
                    THEN /\ x.pc = "done"
                         /\ x.res.status = 301
                         /\ HeaderGet(x.res.headers, LocationName)
                                = HTTPS \o ColonSlashSlash \o configs[i].localSubdomain
                                    \o <<":">> \o HTTPS_PORT \o x.req.url
                         /\ x.site = <<>>
                         /\ x.calls = <<>>
                    ELSE /\ HeaderGet(x.res.headers, LocationName) = <<>>
                         /\ x.req.method = OPTIONS => x.res.status = 204
                         /\ x.req.method # OPTIONS =>
                                x.pc = "proxying" /\ Len(x.calls) = 1

C8_Witness ==
    \E e \in DOMAIN exchanges :
        /\ exchanges[e].req.listener = "http"
        /\ exchanges[e].req.method = GET
        /\ exchanges[e].req.host = LocalGw
        /\ exchanges[e].req.url = <<"/", "p", "?", "q">>
        /\ exchanges[e].res.status = 301
        /\ exchanges[e].res.ended

(***************************************************************************)
(* C9.  End-to-end explicit rewrite: for a route with the one explicit     *)
(* rewrite {E, P}, a proxied request with path P + "/rest" causes exactly  *)
(* one upstream call, to hostname E with path "/rest", over the route's    *)
(* target protocol and port, with the outbound Host header E; a proxied    *)
(* request whose path matches no explicit and no wildcard rewrite goes to  *)
(* the route's target host with the path unchanged.                        *)
(***************************************************************************)
C9_ExplicitRewriteEndToEnd ==
    \A e \in DOMAIN exchanges :
        LET x == exchanges[e]
        IN  x.pc = "proxying" =>
                \A i \in RoutesFor(x.req.host) :
                    LET c  == configs[i]
                        rw == c.rewrites
                        explicit == Len(rw) = 1
                                    /\ StartsWith(x.req.url, rw[1].localPathPrefix \o <<"/">>)
                        unmatched ==
                            /\ \A k \in DOMAIN rw :
                                   ~StartsWith(x.req.url, rw[k].localPathPrefix)
                            /\ \A k \in DOMAIN c.wildcardRewrites :
                                   ~StartsWith(x.req.url, c.wildcardRewrites[k].localPathPrefix)
                    IN  /\ Len(x.calls) = 1
                        /\ x.calls[1].transport = c.targetProtocol
                        /\ x.calls[1].port = c.targetPort
                        /\ explicit =>
                              /\ x.calls[1].hostname = rw[1].externalHost
                              /\ rw[1].localPathPrefix \o x.calls[1].path = x.req.url
                              /\ HeaderGet(x.calls[1].headers, HostName) = rw[1].externalHost
                        /\ unmatched =>
                              /\ x.calls[1].hostname = c.targetHost
                              /\ x.calls[1].path = x.req.url
                              /\ HeaderGet(x.calls[1].headers, HostName) = c.targetHost

\* both halves have happened: /x/v went to a.t as /v, and /p?q went to the target host
C9_Witness ==
    \E e, f \in DOMAIN exchanges :
        /\ exchanges[e].pc = "proxying"
        /\ exchanges[e].req.host = LocalGw
        /\ exchanges[e].req.url = <<"/", "x", "/", "v">>
        /\ exchanges[e].calls[1].hostname = RwA.externalHost
        /\ exchanges[e].calls[1].path = <<"/", "v">>
        /\ exchanges[e].up = "failed"
        /\ exchanges[f].pc = "proxying"
        /\ exchanges[f].req.url = <<"/", "p", "?", "q">>
        /\ exchanges[f].calls[1].hostname = Site2.targetHost
        /\ exchanges[f].calls[1].path = <<"/", "p", "?", "q">>

(***************************************************************************)
(* C10.  Upstream failure: when the upstream request of an exchange emits  *)
(* an error, the client of that exchange receives 502 with a text/plain    *)
(* body containing the route's name and the error message; the upstream    *)
(* request is not issued again and the process keeps running.              *)
(* The statement does not hold of the program: the error can arrive after  *)
(* the upstream's response has ended and the reply is written, while the   *)
(* inbound body is still being sent upstream; the handler's writeHead then *)
(* throws and the process ends with every exchange in flight.              *)
(***************************************************************************)
\* the 'end' handler of exchange f threw: the upstream response has ended and no
\* reply is written
EndHandlerThrew(f) == exchanges[f].up = "ended" /\ ~exchanges[f].res.headWritten

C10_UpstreamFailure ==
    \A e \in DOMAIN exchanges :
        LET x == exchanges[e]
        IN  x.errors # <<>> =>
                /\ x.res.status = 502
                /\ HeaderGet(x.res.headers, ContentTypeName) = TextPlain
                /\ Includes(x.res.body, x.site[1].name)
                /\ Includes(x.res.body, x.errors[1])
                /\ Len(x.calls) = 1
                /\ crashed => \E f \in DOMAIN exchanges : EndHandlerThrew(f)

(***************************************************************************)
(* C11.  No single request can terminate the process: for every sequence   *)
(* of inbound requests, upstream responses and upstream errors, no         *)
(* exception escapes a request handler or one of its callbacks.            *)
(* The statement does not hold of the program: rewriteSetCookies throws in *)
(* the proxyRes 'end' handler on a Domain attribute without a value, and   *)
(* res.writeHead throws in the proxyReq 'error' handler when the reply is  *)
(* already written; neither handler catches.                               *)
(***************************************************************************)
C11_NoRequestTerminatesProcess == ~crashed

(***************************************************************************)
(* C12.  Cookie parse anomalies never fail the request: for every          *)
(* Set-Cookie value, also one whose first part has no '=' and one with     *)
(* valueless attributes (Secure, HttpOnly, a Domain without a value),      *)
(* rewriteSetCookies returns a cookie string and does not throw.           *)
(* The statement does not hold of the program: a Domain attribute without  *)
(* a value is stored as the boolean true, and the domain test calls        *)
(* .replace on it.                                                         *)
(***************************************************************************)
C12_CookieAnomaliesNeverThrow ==
    ckPc = "returned" => ~ckOut.threw /\ ckOut.cookie # <<>>

(***************************************************************************)
(* C13.  Redirects never leave the gateway: in every proxied reply whose   *)
(* upstream response carries a Location, a URL of the target host has      *)
(* become the local origin and a URL of an explicit rewrite's external     *)
(* host has become the local origin plus that rewrite's localPathPrefix,   *)
(* also when one configured host is a string prefix of another.            *)
(* The statement does not hold of the program: the target host is replaced *)
(* first and wherever its text occurs, so in a URL of an external host     *)
(* that starts with the target host only the target host's part is         *)
(* replaced.                                                               *)
(***************************************************************************)
\* exchange e has sent the proxied reply of an upstream response with a Location
\* that headersRemove does not delete
RepliedWithLocation(e) ==
    /\ exchanges[e].up = "ended"
    /\ exchanges[e].res.headWritten
    /\ MapHas(exchanges[e].proxyRes.headers, LowerLocationName)
    /\ \A i \in DOMAIN exchanges[e].site[1].headersRemove :
           exchanges[e].site[1].headersRemove[i] # LowerLocationName

C13_RedirectsStayInGateway ==
    \A e \in DOMAIN exchanges :
        RepliedWithLocation(e) =>
            LET c      == exchanges[e].site[1]
                from   == MapGet(exchanges[e].proxyRes.headers, LowerLocationName)
                sent   == HeaderGet(exchanges[e].res.headers, LowerLocationName)
                origin == LocalProtocol(c) \o ColonSlashSlash \o c.localSubdomain
                             \o <<":">> \o LocalPort(c)
            IN  \A scheme \in {HTTPS, HTTP} :
                    /\ from = scheme \o ColonSlashSlash \o c.targetHost \o LocationPath
                          => sent = origin \o LocationPath
                    /\ \A k \in DOMAIN c.rewrites :
                          from = scheme \o ColonSlashSlash \o c.rewrites[k].externalHost
                                    \o LocationPath
                          => sent = origin \o c.rewrites[k].localPathPrefix \o LocationPath

(***************************************************************************)
(* C14.  headersAdd is applied to every response of the route: every       *)
(* response sent for a request that resolved to a route carries each       *)
(* header of the route's headersAdd with its configured value.             *)
(* The statement does not hold of the program: the 502 written by the      *)
(* proxyReq 'error' handler carries Content-Type only.                     *)
(***************************************************************************)
\* the reply of exchange e carries every entry of its route's headersAdd
CarriesHeadersAdd(e) ==
    \A i \in DOMAIN exchanges[e].site[1].headersAdd :
        LET entry == exchanges[e].site[1].headersAdd[i]
        IN  /\ MapHas(exchanges[e].res.headers, entry[1])
            /\ MapGet(exchanges[e].res.headers, entry[1]) = entry[2]

C14_HeadersAddOnEveryResponse ==
    \A e \in DOMAIN exchanges :
        exchanges[e].site # <<>> /\ exchanges[e].res.headWritten => CarriesHeadersAdd(e)

(***************************************************************************)
(* C15.  headersRemove is stripped from the proxied reply: no reply        *)
(* written after the upstream response carries a header whose name,        *)
(* compared without regard to case, is listed in the route's               *)
(* headersRemove, unless the name is also a key of headersAdd or is        *)
(* content-length, which the handler sets after the deletion.              *)
(***************************************************************************)
\* exchange e has sent the reply assembled from the upstream response
ProxiedReply(e) ==
    /\ exchanges[e].up = "ended"
    /\ exchanges[e].res.headWritten

\* the reply of exchange e has a header of this name, whatever its case
ReplyCarries(e, name) ==
    \E i \in DOMAIN exchanges[e].res.headers :
        ToLowerCase(exchanges[e].res.headers[i][1]) = ToLowerCase(name)

\* name is a key of the route's headersAdd
InHeadersAdd(siteConfig, name) ==
    \E i \in DOMAIN siteConfig.headersAdd :
        ToLowerCase(siteConfig.headersAdd[i][1]) = ToLowerCase(name)

C15_HeadersRemoveStripped ==
    \A e \in DOMAIN exchanges :
        ProxiedReply(e) =>
            \A i \in DOMAIN exchanges[e].site[1].headersRemove :
                LET name == exchanges[e].site[1].headersRemove[i]
                IN  \/ InHeadersAdd(exchanges[e].site[1], name)
                    \/ ToLowerCase(name) = ContentLengthName
                    \/ ~ReplyCarries(e, name)

\* a reply whose upstream response had x-r, listed in headersRemove and not in
\* headersAdd, next to a Location and a Set-Cookie that are kept
C15_Witness ==
    \E e \in DOMAIN exchanges :
        /\ ProxiedReply(e)
        /\ MapHas(exchanges[e].proxyRes.headers, <<"x", "-", "r">>)
        /\ exchanges[e].site[1].headersRemove = << <<"x", "-", "r">> >>
        /\ exchanges[e].site[1].headersAdd = << <<<<"x", "-", "f">>, <<"1">>>> >>
        /\ ~ReplyCarries(e, <<"x", "-", "r">>)
        /\ ReplyCarries(e, <<"x", "-", "f">>)

\* the statement without the two exceptions
C15_AsStated ==
    \A e \in DOMAIN exchanges :
        ProxiedReply(e) =>
            \A i \in DOMAIN exchanges[e].site[1].headersRemove :
                ~ReplyCarries(e, exchanges[e].site[1].headersRemove[i])

(***************************************************************************)
(* C18.  Content-Length invariant: every proxied reply carries exactly one *)
(* Content-Length header and its value is the number of bytes of the       *)
(* (rewritten) body sent, whatever the upstream Content-Length is and      *)
(* whether or not headersAdd or headersRemove list content-length.         *)
(***************************************************************************)
\* the number a sequence of decimal digits denotes
RECURSIVE DecimalValue(_)
DecimalValue(digits) ==
    IF digits = <<>> THEN 0
    ELSE LET last == digits[Len(digits)]
             d == CHOOSE n \in 0..9 :
                     <<"0", "1", "2", "3", "4", "5", "6", "7", "8", "9">>[n + 1] = last
         IN  10 * DecimalValue(SubSeq(digits, 1, Len(digits) - 1)) + d

\* the positions of the Content-Length headers of a header list
ContentLengthPositions(headers) ==
    {i \in DOMAIN headers : ToLowerCase(headers[i][1]) = ContentLengthName}

C18_ContentLengthIsBodyLength ==
    \A e \in DOMAIN exchanges :
        ProxiedReply(e) /\ exchanges[e].res.ended =>
            /\ Cardinality(ContentLengthPositions(exchanges[e].res.headers)) = 1
            /\ \A i \in ContentLengthPositions(exchanges[e].res.headers) :
                   DecimalValue(exchanges[e].res.headers[i][2]) = Len(exchanges[e].res.body)

\* a text reply of four bytes (a, and U+FFFD encoded) whose upstream response said
\* 99, on a route that lists content-length in headersRemove and in headersAdd
C18_Witness ==
    \E e \in DOMAIN exchanges :
        /\ ProxiedReply(e) /\ exchanges[e].res.ended
        /\ HeaderGet(exchanges[e].proxyRes.headers, ContentLengthName) = <<"9", "9">>
        /\ exchanges[e].site[1].headersRemove = <<ContentLengthName>>
        /\ exchanges[e].site[1].headersAdd = << <<ContentLengthName, <<"5">>>> >>
        /\ exchanges[e].res.body = <<"a", "xEF", "xBF", "xBD">>
        /\ HeaderGet(exchanges[e].res.headers, ContentLengthName) = <<"4">>

(***************************************************************************)
(* Specification SpecSni: the HTTPS server's SNICallback, for every list   *)
(* of loaded configurations and every server name of the bounded input     *)
(* sets.  The server exists when at least one configuration has an https   *)
(* target.                                                                 *)
(***************************************************************************)
MaxConfigs == 3

SniSites ==
    {SiteConfig(local, local, TargetT, proto, IF proto = HTTPS THEN 443 ELSE 80, <<>>, <<>>) :
        local \in {LocalGw, <<"h", "w">>, <<"i", "w">>}, proto \in {HTTPS, HTTP}}

\* the lists loadAllConfigs may return: at least one configuration
SniConfigLists ==
    UNION {[1..n -> SniSites] : n \in 1..MaxConfigs}

\* the names a client may send: the local hostnames, one in capitals, an unknown one
ServerNames == {LocalGw, <<"h", "w">>, <<"i", "w">>, <<"G", "W">>, <<"n", "o">>}

InitSni ==
    /\ configs \in SniConfigLists
    /\ routeMap = Router(<<>>, configs)
    /\ exchanges = [e \in 1..MaxExchanges |-> IdleExchange]
    /\ crashed = FALSE
    /\ certMap = BootCertMap(configs)
    /\ SniQuiet
    /\ RqIdle
    /\ CkIdle
    /\ BwIdle

\* a TLS handshake that names a server: the HTTPS server calls SNICallback
SniHandshake ==
    /\ httpsConfigs(configs) # <<>>
    /\ \E servername \in ServerNames :
          /\ sniServername' = servername
          /\ sniContext' = SNICallback(certMap, servername)
    /\ sniPc' = "returned"
    /\ UNCHANGED certMap
    /\ UNCHANGED <<rqVars, ckVars, bwVars, pxVars>>

NextSni == SniHandshake

SpecSni == InitSni /\ [][NextSni]_vars

(***************************************************************************)
(* C16.  SNI certificate dispatch: for a server name that is the local     *)
(* hostname of an https-target configuration the pair handed to the        *)
(* handshake is that hostname's key and certificate; for every other name  *)
(* it is the pair of the first https-target configuration loaded; the      *)
(* callback always yields a context and no error.                          *)
(***************************************************************************)
\* the https-target configurations in load order, read off the loaded list
HttpsRoutesLoaded == SelectSeq(configs, LAMBDA c : c.targetProtocol = HTTPS)

\* the pair sniContext holds is the one generated for domain
IsPairOf(domain) ==
    /\ sniContext.key = domain \o <<".", "k", "e", "y">>
    /\ sniContext.cert = domain \o <<".", "c", "r", "t">>

C16_SniDispatch ==
    sniPc = "returned" =>
        /\ sniContext.err = "null"
        /\ (\E i \in DOMAIN HttpsRoutesLoaded :
                HttpsRoutesLoaded[i].localSubdomain = sniServername)
              => IsPairOf(sniServername)
        /\ (\A i \in DOMAIN HttpsRoutesLoaded :
                HttpsRoutesLoaded[i].localSubdomain # sniServername)
              => IsPairOf(HttpsRoutesLoaded[1].localSubdomain)

\* the name of the third configuration loaded, after an http-target and another
\* https-target configuration, selects its own pair and not the default
C16_Witness ==
    /\ sniPc = "returned"
    /\ Len(configs) = 3
    /\ configs[1].targetProtocol = HTTP
    /\ configs[2].targetProtocol = HTTPS /\ configs[2].localSubdomain = LocalGw
    /\ configs[3].targetProtocol = HTTPS /\ configs[3].localSubdomain = <<"i", "w">>
    /\ sniServername = <<"i", "w">>
    /\ IsPairOf(<<"i", "w">>)

(***************************************************************************)
(* Specification SpecFair: the proxy process under fair delivery of        *)
(* events.  The event loop delivers every event that is pending: the       *)
(* inbound request eventually ends, and an upstream request that can       *)
(* still produce an event eventually produces one.  The requests are for   *)
(* one URL, to the https-target route and to an unconfigured host.         *)
(***************************************************************************)
FairHosts == {LocalGw, <<"n", "o">>}
FairUrls  == {<<"/", "p", "?", "q">>}

InitFair ==
    /\ configs = <<Site1, Site2>>
    /\ routeMap = Router(<<>>, configs)
    /\ exchanges = [e \in 1..MaxExchanges |-> IdleExchange]
    /\ crashed = FALSE
    /\ certMap = BootCertMap(configs)
    /\ SniQuiet
    /\ RqIdle
    /\ CkIdle
    /\ BwIdle

\* an event of the upstream request or response of exchange e
UpstreamEvent(e) ==
    \/ UpstreamResponse(e)
    \/ UpstreamData(e)
    \/ UpstreamEnd(e)
    \/ UpstreamAbort(e)
    \/ UpstreamError(e)

NextFair ==
    \E e \in 1..MaxExchanges :
        \/ AcceptFrom(e, FairHosts, FairUrls, RequestHeaderSets)
        \/ InboundEnd(e)
        \/ UpstreamEvent(e)

\* the states in which UpstreamEvent(e) is enabled: the upstream request is out and
\* its response has not ended or failed, or the response has ended while the
\* inbound request body is still being written to the upstream socket
UpstreamPending(e) ==
    /\ ~crashed
    /\ \/ exchanges[e].up \in {"sent", "headers"}
       \/ exchanges[e].up = "ended" /\ ~exchanges[e].reqEnded

\* weak fairness of InboundEnd(e) and of UpstreamEvent(e); the second is
\* WF_vars(UpstreamEvent(e)) with its enabling condition written out
Fairness ==
    \A e \in 1..MaxExchanges :
        /\ WF_vars(InboundEnd(e))
        /\ ([]<>(~UpstreamPending(e)) \/ []<><<UpstreamEvent(e)>>_vars)

SpecFair == InitFair /\ [][NextFair]_vars /\ Fairness

(***************************************************************************)
(* C17.  Every exchange reaches a terminal state: under fair delivery of   *)
(* events every accepted request eventually has its response ended, also   *)
(* when the upstream response starts and is aborted before its end.        *)
(* The statement does not hold of the program: nothing ends the response   *)
(* of an exchange whose upstream response was aborted.                     *)
(***************************************************************************)
C17_EveryExchangeTerminates ==
    \A e \in 1..MaxExchanges :
        Accepted(e) ~> exchanges[e].res.ended

(***************************************************************************)
(* Specification SpecOutbound: the request listeners applied to one        *)
(* request, for inbound headers with and without hop-by-hop headers,       *)
(* Accept-Encoding, User-Agent and Cookie (present, empty or absent), on a *)
(* route with an injected cookie and on a route without.                   *)
(***************************************************************************)
\* a header line when present is one of the values, nothing otherwise
Optional(name, values) == {<<>>} \cup {<< <<name, v>> >> : v \in values}

OutboundHeaderSets ==
    {ua \o ck \o hop \o ae \o << <<<<"x", "-", "a">>, <<"1">>>> >> :
        ua  \in Optional(UserAgentName, {<<"c">>, <<>>}),
        ck  \in Optional(CookieHeaderName, {<<"c", "=", "1">>, <<>>}),
        hop \in {<<>>,
                 << <<<<"c", "o", "n", "n", "e", "c", "t", "i", "o", "n">>, <<"k", "e", "e", "p", "-", "a", "l", "i", "v", "e">>>>, <<<<"k", "e", "e", "p", "-", "a", "l", "i", "v", "e">>, <<"5">>>>,
                    <<<<"p", "r", "o", "x", "y", "-", "a", "u", "t", "h", "e", "n", "t", "i", "c", "a", "t", "e">>, <<"b">>>>, <<<<"p", "r", "o", "x", "y", "-", "a", "u", "t", "h", "o", "r", "i", "z", "a", "t", "i", "o", "n">>, <<"b">>>>,
                    <<<<"t", "e">>, <<"t", "r", "a", "i", "l", "e", "r", "s">>>>, <<<<"t", "r", "a", "i", "l", "e", "r", "s">>, <<"x", "-", "a">>>>,
                    <<<<"t", "r", "a", "n", "s", "f", "e", "r", "-", "e", "n", "c", "o", "d", "i", "n", "g">>, <<"c", "h", "u", "n", "k", "e", "d">>>>, <<<<"u", "p", "g", "r", "a", "d", "e">>, <<"h", "2", "c">>>> >>},
        ae  \in Optional(AcceptEncodingName, {<<"g", "z", "i", "p">>})}

OutboundHosts == {LocalGw, <<"h", "w">>}

InitOutbound ==
    /\ configs = <<Site1, Site2>>
    /\ routeMap = Router(<<>>, configs)
    /\ exchanges = [e \in 1..MaxExchanges |-> IdleExchange]
    /\ crashed = FALSE
    /\ certMap = BootCertMap(configs)
    /\ SniQuiet
    /\ RqIdle
    /\ CkIdle
    /\ BwIdle

NextOutbound == AcceptFrom(1, OutboundHosts, RequestUrls, OutboundHeaderSets)

SpecOutbound == InitOutbound /\ [][NextOutbound]_vars

(***************************************************************************)
(* C19.  Outbound header assembly: the headers sent upstream are the       *)
(* inbound headers without the eight hop-by-hop headers and without        *)
(* Accept-Encoding; Host is the upstream host; User-Agent is the client's  *)
(* when the client sent a non-empty one and the fixed default otherwise;   *)
(* with an injected cookie configured Cookie is the client's non-empty     *)
(* Cookie, '; ' and the injected cookie, or the injected cookie alone;     *)
(* with none configured the client's Cookie is passed as it came.          *)
(***************************************************************************)
\* the hop-by-hop names as the statement lists them
ListedHopByHop ==
    {<<"c", "o", "n", "n", "e", "c", "t", "i", "o", "n">>, <<"k", "e", "e", "p", "-", "a", "l", "i", "v", "e">>, <<"p", "r", "o", "x", "y", "-", "a", "u", "t", "h", "e", "n", "t", "i", "c", "a", "t", "e">>, <<"p", "r", "o", "x", "y", "-", "a", "u", "t", "h", "o", "r", "i", "z", "a", "t", "i", "o", "n">>, <<"t", "e">>, <<"t", "r", "a", "i", "l", "e", "r", "s">>, <<"t", "r", "a", "n", "s", "f", "e", "r", "-", "e", "n", "c", "o", "d", "i", "n", "g">>, <<"u", "p", "g", "r", "a", "d", "e">>}

\* the names whose value the proxy sets itself
SetByProxy == {HostName, UserAgentName, CookieHeaderName}

\* exchange e has issued its upstream request
Proxied(e) == exchanges[e].calls # <<>>

\* the headers of the upstream request of exchange e
SentHeaders(e) == exchanges[e].calls[1].headers

\* the headers the client sent
ClientHeaders(e) == exchanges[e].req.headers

\* the client sent the header name
ClientSent(e, name) == \E i \in DOMAIN ClientHeaders(e) : ClientHeaders(e)[i][1] = name

\* the headers that pass unchanged do, and nothing else is sent besides the three
\* the proxy sets
PassThrough(e) ==
    /\ \A i \in DOMAIN ClientHeaders(e) :
          LET name == ClientHeaders(e)[i][1]
          IN  name \notin ListedHopByHop \cup {AcceptEncodingName} \cup SetByProxy
                 => /\ MapHas(SentHeaders(e), name)
                    /\ MapGet(SentHeaders(e), name) = ClientHeaders(e)[i][2]
    /\ \A i \in DOMAIN SentHeaders(e) :
          LET name == SentHeaders(e)[i][1]
          IN  /\ name \notin ListedHopByHop \cup {AcceptEncodingName}
              /\ name \notin SetByProxy => ClientSent(e, name)
    /\ \A i, j \in DOMAIN SentHeaders(e) :
          SentHeaders(e)[i][1] = SentHeaders(e)[j][1] => i = j

\* Host is the host the request is sent to
HostReplaced(e) ==
    /\ MapHas(SentHeaders(e), HostName)
    /\ MapGet(SentHeaders(e), HostName) = exchanges[e].calls[1].hostname

\* User-Agent and Cookie, where supplied(name) says when the client counts as
\* having supplied the header
AgentAndCookie(e, supplied(_)) ==
    LET inject == exchanges[e].site[1].injectCookie
    IN  /\ MapHas(SentHeaders(e), UserAgentName)
        /\ MapGet(SentHeaders(e), UserAgentName) =
              (IF supplied(UserAgentName) THEN HeaderGet(ClientHeaders(e), UserAgentName)
               ELSE FALLBACK_UA)
        /\ inject # <<>> =>
              /\ MapHas(SentHeaders(e), CookieHeaderName)
              /\ MapGet(SentHeaders(e), CookieHeaderName) =
                    (IF supplied(CookieHeaderName)
                     THEN HeaderGet(ClientHeaders(e), CookieHeaderName) \o <<";", " ">> \o inject
                     ELSE inject)
        /\ inject = <<>> =>
              /\ MapHas(SentHeaders(e), CookieHeaderName) <=> ClientSent(e, CookieHeaderName)
              /\ ClientSent(e, CookieHeaderName) =>
                    MapGet(SentHeaders(e), CookieHeaderName)
                       = HeaderGet(ClientHeaders(e), CookieHeaderName)

C19_OutboundHeaders ==
    \A e \in DOMAIN exchanges :
        Proxied(e) =>
            /\ PassThrough(e)
            /\ HostReplaced(e)
            /\ AgentAndCookie(e, LAMBDA name : /\ ClientSent(e, name)
                                               /\ HeaderGet(ClientHeaders(e), name) # <<>>)

\* a request with User-Agent, Cookie, the hop-by-hop headers and Accept-Encoding on
\* the route with an injected cookie: the Cookie sent is the client's and the
\* injected one, the User-Agent is the client's, Connection is gone
C19_Witness ==
    \E e \in DOMAIN exchanges :
        /\ Proxied(e)
        /\ exchanges[e].site[1].injectCookie = <<"i", "=", "1">>
        /\ HeaderGet(ClientHeaders(e), UserAgentName) = <<"c">>
        /\ HeaderGet(ClientHeaders(e), CookieHeaderName) = <<"c", "=", "1">>
        /\ ClientSent(e, <<"c", "o", "n", "n", "e", "c", "t", "i", "o", "n">>)
        /\ ClientSent(e, AcceptEncodingName)
        /\ HeaderGet(SentHeaders(e), CookieHeaderName) = <<"c", "=", "1">> \o <<";", " ">> \o <<"i", "=", "1">>
        /\ HeaderGet(SentHeaders(e), UserAgentName) = <<"c">>
        /\ HeaderGet(SentHeaders(e), <<"x", "-", "a">>) = <<"1">>
        /\ ~MapHas(SentHeaders(e), <<"c", "o", "n", "n", "e", "c", "t", "i", "o", "n">>)

\* the statement with "the client supplied one" read as "the header is present"
C19_AsStated ==
    \A e \in DOMAIN exchanges :
        Proxied(e) =>
            /\ PassThrough(e)
            /\ HostReplaced(e)
            /\ AgentAndCookie(e, LAMBDA name : ClientSent(e, name))

(***************************************************************************)
(* Specification SpecRoundTrip: the rewriter applied to a text body that   *)
(* is one upstream URL, and getUpstream applied to the path of the URL the *)
(* rewriter returned, as when a client follows the rewritten link.         *)
(***************************************************************************)
\* the part of a URL after "//"
UrlAfterScheme(url) == SliceFrom(url, IndexOf(url, SlashSlash) + 2)

\* host[:port] of a URL
UrlHostPort(url) ==
    LET rest == UrlAfterScheme(url)
    IN  IF IndexOf(rest, <<"/">>) = -1 THEN rest ELSE SliceTo(rest, IndexOf(rest, <<"/">>))

\* the path a client requests for a URL
UrlPath(url) ==
    LET rest == UrlAfterScheme(url)
    IN  IF IndexOf(rest, <<"/">>) = -1 THEN <<"/">> ELSE SliceFrom(rest, IndexOf(rest, <<"/">>))

RoundTripConfigs ==
    {SiteConfig(<<"s">>, LocalGw, TargetT, proto, IF proto = HTTPS THEN 443 ELSE 80, rws, wcs) :
        proto \in {HTTPS, HTTP},
        rws \in {<<>>, <<RwA>>, <<RwA, RwB>>, <<RwA, RwD>>, <<RwA, RwC>>},
        wcs \in {<<>>, <<WcR>>}}

RoundTripLabels == {<<"m">>, <<"m", ".", "n">>}
RoundTripPaths == {<<"/", "z">>, <<"/", "v", "/", "z">>, <<"/">>}

\* the hosts the rewrites of a configuration name
RewriteHosts(cfg) ==
    {cfg.rewrites[i].externalHost : i \in DOMAIN cfg.rewrites}
       \cup {label \o <<".">> \o cfg.wildcardRewrites[i].rootDomain :
                label \in RoundTripLabels, i \in DOMAIN cfg.wildcardRewrites}

InitRoundTrip ==
    /\ \E cfg \in RoundTripConfigs :
          /\ bwConfig = cfg
          /\ rqConfig = cfg
          /\ \E scheme \in {HTTPS, HTTP}, host \in RewriteHosts(cfg), path \in RoundTripPaths :
                bwBody = scheme \o ColonSlashSlash \o host \o path
    /\ bwType = TextHtml
    /\ bwOut = <<>>
    /\ bwPc = "call"
    /\ rqPath = <<>>
    /\ rqResult = NoUpstream
    /\ rqPc = "idle"
    /\ CkIdle
    /\ PxIdle
    /\ SniIdle

\* the client requests the rewritten URL: its path is the req.url of the request
FollowRewritten ==
    /\ bwPc = "returned"
    /\ rqPc = "idle"
    /\ rqPath' = UrlPath(bwOut)
    /\ rqPc' = "call"
    /\ UNCHANGED <<rqConfig, rqResult>>
    /\ UNCHANGED <<ckVars, bwVars, pxVars, sniVars>>

NextRoundTrip == Rewrite \/ FollowRewritten \/ Resolve

SpecRoundTrip == InitRoundTrip /\ [][NextRoundTrip]_vars

(***************************************************************************)
(* C20.  Rewrite/resolve round trip: an upstream URL scheme://H/path in a  *)
(* text body, with H the external host of an explicit rewrite or a label   *)
(* under the root domain of a wildcard rewrite, is replaced by a URL at    *)
(* the local host:port whose path getUpstream resolves to host H and path  *)
(* /path again, for every configuration.                                   *)
(* The statement does not hold of the program: with the prefixes /x and    *)
(* /x/v the URL of the first host with path /v/z comes back as the second  *)
(* host with path /z.                                                      *)
(***************************************************************************)
C20_RewriteResolveRoundTrip ==
    bwPc = "returned" /\ rqPc = "returned" =>
        /\ UrlHostPort(bwOut) = bwConfig.localSubdomain \o <<":">> \o LocalPort(bwConfig)
        /\ rqResult.host = UrlHostPort(bwBody)
        /\ rqResult.path = UrlPath(bwBody)

(***************************************************************************)
(* Specification SpecInterleave: several exchanges in flight whose events  *)
(* interleave, each upstream sending chunks that name its exchange: the    *)
(* chunk of exchange e is a URL of the target host ending in e<e>.         *)
(***************************************************************************)
\* the text that marks the chunks of exchange e
ChunkMark(e) == <<"e">> \o ToDecimal(e)

ChunkOf(e) == HTTPS \o ColonSlashSlash \o TargetT \o <<"/">> \o ChunkMark(e)

NextInterleave ==
    \E e \in 1..MaxExchanges :
        \/ AcceptFrom(e, FairHosts, FairUrls, RequestHeaderSets)
        \/ InboundEnd(e)
        \/ UpstreamResponse(e)
        \/ UpstreamDataFrom(e, {ChunkOf(e)})
        \/ UpstreamEnd(e)
        \/ UpstreamAbort(e)
        \/ UpstreamError(e)

SpecInterleave == InitFair /\ [][NextInterleave]_vars

(***************************************************************************)
(* C21.  Exchanges are independent under interleaving: the reply of an     *)
(* exchange is determined by its own request and its own upstream          *)
(* response; no chunk of one upstream response is in another exchange's    *)
(* body; no exchange is left without its reply by an event of another; the *)
(* route table, the configurations the rewriters and cookie handlers are   *)
(* built from, and the certificate map never change.                       *)
(* The statement does not hold of the program: an exception in a handler   *)
(* of one exchange ends the process, and the other exchanges in flight get *)
(* no reply.                                                               *)
(***************************************************************************)
\* the number of places where mark occurs in body
Occurrences(body, mark) == Cardinality({i \in 1..Len(body) : OccursAt(body, mark, i)})

\* two exchanges with the same request and the same upstream response, both ended,
\* have the same reply
SameInputsSameReply ==
    \A e, f \in DOMAIN exchanges :
        /\ exchanges[e].up = "ended" /\ exchanges[f].up = "ended"
        /\ exchanges[e].req = exchanges[f].req
        /\ exchanges[e].proxyRes = exchanges[f].proxyRes
        /\ exchanges[e].chunks = exchanges[f].chunks
        => exchanges[e].res = exchanges[f].res

\* a body holds the chunks of its own upstream response and of no other
OwnChunksOnly ==
    \A e \in DOMAIN exchanges :
        /\ ProxiedReply(e) =>
              Occurrences(exchanges[e].res.body, ChunkMark(e)) = Len(exchanges[e].chunks)
        /\ \A f \in DOMAIN exchanges :
              f # e => Occurrences(exchanges[e].res.body, ChunkMark(f)) = 0

\* the process has exited while exchange e waits for its upstream, and no handler of
\* e has thrown
CutOffByAnother(e) ==
    /\ crashed
    /\ exchanges[e].pc = "proxying"
    /\ exchanges[e].up \in {"sent", "headers"}
    /\ ~exchanges[e].res.headWritten

\* what is built at startup stays as built, and an exchange holds a configuration
\* of the list
StartupStateKept ==
    /\ routeMap = Router(<<>>, configs)
    /\ certMap = BootCertMap(configs)
    /\ \A e \in DOMAIN exchanges :
          exchanges[e].site # <<>> =>
              \E i \in DOMAIN configs : exchanges[e].site[1] = configs[i]

C21_ExchangesIndependent ==
    /\ SameInputsSameReply
    /\ OwnChunksOnly
    /\ StartupStateKept
    /\ \A e \in DOMAIN exchanges : ~CutOffByAnother(e)

(***************************************************************************)
(* C22.  At most one reply per exchange: once the status line and headers  *)
(* of a response are written they are never written again, and once the    *)
(* response is ended it is never ended again with another body; so no 502  *)
(* follows a proxied reply and no proxied reply follows a 502.  A response *)
(* is ended only with its head written.                                    *)
(***************************************************************************)
\* the head of the response of exchange e stays as written in this step
HeadKept(e) ==
    exchanges[e].res.headWritten =>
        /\ exchanges'[e].res.headWritten
        /\ exchanges'[e].res.status = exchanges[e].res.status
        /\ exchanges'[e].res.headers = exchanges[e].res.headers

\* the ended response of exchange e stays as ended in this step
EndKept(e) ==
    exchanges[e].res.ended =>
        /\ exchanges'[e].res.ended
        /\ exchanges'[e].res.body = exchanges[e].res.body

ExternalHosts(siteConfig) ==
    {siteConfig.rewrites[i].externalHost : i \in DOMAIN siteConfig.rewrites}

\* host is <label>.<rootDomain> for a label that holds no '/'
InWildcardFamily(host, rootDomain) ==
    LET suffix == <<".">> \o rootDomain
    IN  /\ EndsWith(host, suffix)
        /\ ~Includes(SliceTo(host, Len(host) - Len(suffix)), <<"/">>)

HostConfigured(siteConfig, host) ==
    \/ host = siteConfig.targetHost
    \/ host \in ExternalHosts(siteConfig)
    \/ \E i \in DOMAIN siteConfig.wildcardRewrites :
          InWildcardFamily(host, siteConfig.wildcardRewrites[i].rootDomain)

C23_OnlyConfiguredUpstreams ==
    rqPc = "returned" =>
        /\ HostConfigured(rqConfig, rqResult.host)
        /\ rqResult.protocol = rqConfig.targetProtocol
        /\ rqResult.port = rqConfig.targetPort
        /\ StartsWith(rqPath, <<"/">>) =>
              rqResult.path # <<>> /\ rqResult.path[1] = "/"

\* the wildcard branch has returned a host with a label of several levels and the
\* path that followed the label
C23_Witness ==
    /\ rqPc = "returned"
    /\ StartsWith(rqPath, <<"/">>)
    /\ rqConfig.rewrites # <<>>
    /\ rqResult.host # rqConfig.targetHost
    /\ rqResult.host \notin ExternalHosts(rqConfig)
    /\ Includes(SliceTo(rqResult.host, Len(rqResult.host) - 5), <<".">>)
    /\ Len(rqResult.path) > 1
    /\ rqResult.protocol = HTTP

=============================================================================
